---- MODULE Spec2Model ----
(***************************************************************************)
(* Model of the cloud agent backend: the orchestration loop                *)
(* (agents/orchestrator.py), the guardrails (security/guardrails.py), the  *)
(* audit logger (security/audit.py), the token check (security/auth.py)    *)
(* and the two HTTP routes (api/main.py).                                  *)
(*                                                                         *)
(* Text is a sequence of one-character strings, so that the regular        *)
(* expressions of PII_PATTERNS are matched character by character.         *)
(* Amounts are integers in thousandths of a dollar (mills).                *)
(* One behaviour handles one HTTP request; under SpecConcurrent a second    *)
(* invocation writes to the audit log at the same time.                    *)
(***************************************************************************)
EXTENDS Integers, Sequences, FiniteSets, TLC

\* ------------------------------------------------------------------ bounds
\* Largest number of content blocks in one response of the reasoning service.
MaxBlocks == 2
\* Largest iteration cap (max_iterations) a caller passes to run_cloud_agent.
MaxIter == 2
\* Largest number of audit records a concurrent invocation writes.
MaxPeerLogs == 2
\* Largest reading of the clock.
MaxClock == 3

\* ------------------------------------------------------------- characters
Digits == {"0", "1", "2", "3", "4", "5", "6", "7", "8", "9"}
LowerLetters == {"a", "b", "c", "d", "e", "f", "g", "h", "i", "j", "k", "l", "m",
                 "n", "o", "p", "q", "r", "s", "t", "u", "v", "w", "x", "y", "z"}
UpperLetters == {"A", "B", "C", "D", "E", "F", "G", "H", "I", "J", "K", "L", "M",
                 "N", "O", "P", "Q", "R", "S", "T", "U", "V", "W", "X", "Y", "Z"}
Whitespace == {" ", "\t", "\n"}

\* The regex class \d.
IsDigit(c) == c \in Digits
\* The regex class \w.
IsWord(c) == c \in Digits \cup LowerLetters \cup UpperLetters \cup {"_"}
\* The regex class \s, and its complement \S.
IsSpace(c) == c \in Whitespace

\* str.lower() on one character, which is also how (?i) compares letters.
LowerChar(c) ==
    CASE c = "A" -> "a" [] c = "B" -> "b" [] c = "C" -> "c" [] c = "D" -> "d"
      [] c = "E" -> "e" [] c = "F" -> "f" [] c = "G" -> "g" [] c = "H" -> "h"
      [] c = "I" -> "i" [] c = "J" -> "j" [] c = "K" -> "k" [] c = "L" -> "l"
      [] c = "M" -> "m" [] c = "N" -> "n" [] c = "O" -> "o" [] c = "P" -> "p"
      [] c = "Q" -> "q" [] c = "R" -> "r" [] c = "S" -> "s" [] c = "T" -> "t"
      [] c = "U" -> "u" [] c = "V" -> "v" [] c = "W" -> "w" [] c = "X" -> "x"
      [] c = "Y" -> "y" [] c = "Z" -> "z" [] OTHER -> c

\* str.lower() on a text.
Lower(t) == [i \in 1..Len(t) |-> LowerChar(t[i])]

\* ---------------------------------------------------------- regex pieces
\* \b between position p-1 and position p of t (positions are 1-based; p may
\* be 1 or Len(t)+1): exactly one of the two neighbours is a word character.
WordAt(t, p) == p >= 1 /\ p <= Len(t) /\ IsWord(t[p])
Boundary(t, p) == WordAt(t, p - 1) # WordAt(t, p)

\* n digits starting at position i.
DigitsAt(t, i, n) == i >= 1 /\ i + n - 1 <= Len(t) /\ \A k \in i..(i + n - 1) : IsDigit(t[k])

\* The literal word w (lower case), compared case-insensitively, at position i.
LiteralAt(t, i, w) ==
    i >= 1 /\ i + Len(w) - 1 <= Len(t) /\ \A k \in 1..Len(w) : LowerChar(t[i + k - 1]) = w[k]

\* One character of [\s-] at position i.
SepDashAt(t, i) == i >= 1 /\ i <= Len(t) /\ (IsSpace(t[i]) \/ t[i] = "-")

\* Ends (exclusive) of the runs [cls]+ that start at position i, where cls is
\* the set of non-space characters of the class besides \s.
RunEnds(t, i, extra) ==
    {j \in (i + 1)..(Len(t) + 1) : \A k \in i..(j - 1) : IsSpace(t[k]) \/ t[k] \in extra}

\* ------------------------------------------------------------ PII_PATTERNS
\* Each MatchK(t, i) is TRUE when pattern K of PII_PATTERNS matches t at i.

\* \b\d{16}\b
Match16Digit(t, i) == Boundary(t, i) /\ DigitsAt(t, i, 16) /\ Boundary(t, i + 16)

\* \b\d{4}[\s-]\d{4}[\s-]\d{4}[\s-]\d{4}\b
MatchFormattedCard(t, i) ==
    /\ Boundary(t, i)
    /\ DigitsAt(t, i, 4) /\ SepDashAt(t, i + 4)
    /\ DigitsAt(t, i + 5, 4) /\ SepDashAt(t, i + 9)
    /\ DigitsAt(t, i + 10, 4) /\ SepDashAt(t, i + 14)
    /\ DigitsAt(t, i + 15, 4)
    /\ Boundary(t, i + 19)

\* \b\d{3}-\d{2}-\d{4}\b
MatchSSN(t, i) ==
    /\ Boundary(t, i)
    /\ DigitsAt(t, i, 3) /\ i + 3 <= Len(t) /\ t[i + 3] = "-"
    /\ DigitsAt(t, i + 4, 2) /\ i + 6 <= Len(t) /\ t[i + 6] = "-"
    /\ DigitsAt(t, i + 7, 4)
    /\ Boundary(t, i + 11)

\* \b(?<![\d])\d{9}(?![\d])\b
Match9Digit(t, i) ==
    /\ Boundary(t, i)
    /\ ~(i - 1 >= 1 /\ IsDigit(t[i - 1]))
    /\ DigitsAt(t, i, 9)
    /\ ~(i + 9 <= Len(t) /\ IsDigit(t[i + 9]))
    /\ Boundary(t, i + 9)

\* (?i)\bcvv\b[\s:]+\d{3,4}
MatchCVV(t, i) ==
    /\ Boundary(t, i)
    /\ LiteralAt(t, i, <<"c", "v", "v">>)
    /\ Boundary(t, i + 3)
    /\ \E j \in RunEnds(t, i + 3, {":"}) : DigitsAt(t, j, 3)

\* (?i)\bpin\b[\s:]+\d{4,6}
MatchPIN(t, i) ==
    /\ Boundary(t, i)
    /\ LiteralAt(t, i, <<"p", "i", "n">>)
    /\ Boundary(t, i + 3)
    /\ \E j \in RunEnds(t, i + 3, {":"}) : DigitsAt(t, j, 4)

\* (?i)password[\s:=]+\S+
MatchPassword(t, i) ==
    /\ LiteralAt(t, i, <<"p", "a", "s", "s", "w", "o", "r", "d">>)
    /\ \E j \in RunEnds(t, i + 8, {":", "="}) : j <= Len(t) /\ ~IsSpace(t[j])

\* (?i)secret[\s:=]+\S+
MatchSecret(t, i) ==
    /\ LiteralAt(t, i, <<"s", "e", "c", "r", "e", "t">>)
    /\ \E j \in RunEnds(t, i + 6, {":", "="}) : j <= Len(t) /\ ~IsSpace(t[j])

\* (?i)api[_\s]?key[\s:=]+\S+
MatchAPIKey(t, i) ==
    /\ LiteralAt(t, i, <<"a", "p", "i">>)
    /\ \E k \in {i + 3, i + 4} :
          /\ k = i + 4 => (i + 3 <= Len(t) /\ (t[i + 3] = "_" \/ IsSpace(t[i + 3])))
          /\ LiteralAt(t, k, <<"k", "e", "y">>)
          /\ \E j \in RunEnds(t, k + 3, {":", "="}) : j <= Len(t) /\ ~IsSpace(t[j])

\* The labels of PII_PATTERNS, in the order of the list.
PII_LABELS == <<"16-digit card number", "formatted card number", "SSN formatted",
                "9-digit SSN/routing", "CVV value", "PIN value", "password",
                "secret", "API key">>

\* Pattern number k matches t at position i.
PatternAt(k, t, i) ==
    CASE k = 1 -> Match16Digit(t, i)
      [] k = 2 -> MatchFormattedCard(t, i)
      [] k = 3 -> MatchSSN(t, i)
      [] k = 4 -> Match9Digit(t, i)
      [] k = 5 -> MatchCVV(t, i)
      [] k = 6 -> MatchPIN(t, i)
      [] k = 7 -> MatchPassword(t, i)
      [] k = 8 -> MatchSecret(t, i)
      [] OTHER -> MatchAPIKey(t, i)

\* re.search(pattern k, t)
Search(k, t) == \E i \in 1..Len(t) : PatternAt(k, t, i)

\* The patterns of PII_PATTERNS that match somewhere in t.
PII_PATTERNS(t) == {k \in 1..Len(PII_LABELS) : Search(k, t)}

Min(S) == CHOOSE x \in S : \A y \in S : x <= y

\* validate_output with a scan that knows only the two card-number patterns.
validate_output_CardPatternsOnly(text) ==
    IF PII_PATTERNS(text) \cap {1, 2} # {}
    THEN [raised |-> TRUE, type |-> "GuardrailViolation",
          msg |-> <<"Blocked: possible ", PII_LABELS[Min(PII_PATTERNS(text))], " in response">>,
          value |-> <<>>]
    ELSE [raised |-> FALSE, type |-> "", msg |-> <<>>, value |-> text]

\* validate_output going through the whole list and naming the last pattern
\* that matches.
validate_output_LastCategory(text) ==
    IF PII_PATTERNS(text) # {}
    THEN [raised |-> TRUE, type |-> "GuardrailViolation",
          msg |-> <<"Blocked: possible ",
                    PII_LABELS[CHOOSE k \in PII_PATTERNS(text) :
                                  \A j \in PII_PATTERNS(text) : j <= k],
                    " in response">>,
          value |-> <<>>]
    ELSE [raised |-> FALSE, type |-> "", msg |-> <<>>, value |-> text]

\* LLMOutputGuardrails.validate_output: the text, or a GuardrailViolation
\* named after the first pattern of the list that matches.
validate_output(text) ==
    IF PII_PATTERNS(text) # {}
    THEN [raised |-> TRUE, type |-> "GuardrailViolation",
          msg |-> <<"Blocked: possible ", PII_LABELS[Min(PII_PATTERNS(text))], " in response">>,
          value |-> <<>>]
    ELSE [raised |-> FALSE, type |-> "", msg |-> <<>>, value |-> text]


\* ------------------------------------------------------- sanitize_context
\* The labels of PII_PATTERNS spelled out, in the order of the list.
PII_LABEL_TEXTS ==
    <<<<"1", "6", "-", "d", "i", "g", "i", "t", " ", "c", "a", "r", "d", " ", "n", "u", "m", "b", "e", "r">>,
      <<"f", "o", "r", "m", "a", "t", "t", "e", "d", " ", "c", "a", "r", "d", " ", "n", "u", "m", "b", "e", "r">>,
      <<"S", "S", "N", " ", "f", "o", "r", "m", "a", "t", "t", "e", "d">>,
      <<"9", "-", "d", "i", "g", "i", "t", " ", "S", "S", "N", "/", "r", "o", "u", "t", "i", "n", "g">>,
      <<"C", "V", "V", " ", "v", "a", "l", "u", "e">>,
      <<"P", "I", "N", " ", "v", "a", "l", "u", "e">>,
      <<"p", "a", "s", "s", "w", "o", "r", "d">>,
      <<"s", "e", "c", "r", "e", "t">>,
      <<"A", "P", "I", " ", "k", "e", "y">>>>

\* str.upper() on one character.
UpperChar(c) ==
    CASE c = "a" -> "A" [] c = "b" -> "B" [] c = "c" -> "C" [] c = "d" -> "D"
      [] c = "e" -> "E" [] c = "f" -> "F" [] c = "g" -> "G" [] c = "h" -> "H"
      [] c = "i" -> "I" [] c = "j" -> "J" [] c = "k" -> "K" [] c = "l" -> "L"
      [] c = "m" -> "M" [] c = "n" -> "N" [] c = "o" -> "O" [] c = "p" -> "P"
      [] c = "q" -> "Q" [] c = "r" -> "R" [] c = "s" -> "S" [] c = "t" -> "T"
      [] c = "u" -> "U" [] c = "v" -> "V" [] c = "w" -> "W" [] c = "x" -> "X"
      [] c = "y" -> "Y" [] c = "z" -> "Z" [] OTHER -> c

\* f"[{label.upper().replace(' ', '_')}-REDACTED]" for pattern k.
Placeholder(k) ==
    LET label == PII_LABEL_TEXTS[k]
    IN  <<"[">>
        \o [i \in 1..Len(label) |-> IF label[i] = " " THEN "_" ELSE UpperChar(label[i])]
        \o <<"-", "R", "E", "D", "A", "C", "T", "E", "D", "]">>

Max(S) == CHOOSE x \in S : \A y \in S : y <= x

\* The end (exclusive) of \S+ matched greedily from position j.
NonSpaceEnd(t, j) == Min({e \in (j + 1)..(Len(t) + 1) : e = Len(t) + 1 \/ IsSpace(t[e])})

\* The end (exclusive) of [\s:=]+\S+ matched from position p: the separator
\* run as long as it can be with a non-space character left behind it.
SepValueEnd(t, p) ==
    NonSpaceEnd(t, Max({j \in RunEnds(t, p, {":", "="}) : j <= Len(t) /\ ~IsSpace(t[j])}))

\* The end (exclusive) of [\s:]+\d{lo,hi} matched from position p.
SepDigitsEnd(t, p, lo, hi) ==
    LET j == CHOOSE e \in RunEnds(t, p, {":"}) : DigitsAt(t, e, lo)
    IN  j + Max({n \in lo..hi : DigitsAt(t, j, n)})

\* The end (exclusive) of the match of pattern k that begins at position i.
MatchEnd(k, t, i) ==
    CASE k = 1 -> i + 16
      [] k = 2 -> i + 19
      [] k = 3 -> i + 11
      [] k = 4 -> i + 9
      [] k = 5 -> SepDigitsEnd(t, i + 3, 3, 4)
      [] k = 6 -> SepDigitsEnd(t, i + 3, 4, 6)
      [] k = 7 -> SepValueEnd(t, i + 8)
      [] k = 8 -> SepValueEnd(t, i + 6)
      [] OTHER -> IF LiteralAt(t, i + 3, <<"k", "e", "y">>)
                  THEN SepValueEnd(t, i + 6)
                  ELSE SepValueEnd(t, i + 7)

\* re.sub(pattern k, placeholder, t) from position p on: the matches are taken
\* from left to right in t itself, none overlapping the one before.
RECURSIVE Sub(_, _, _)
Sub(k, t, p) ==
    IF p > Len(t) THEN <<>>
    ELSE IF PatternAt(k, t, p)
    THEN Placeholder(k) \o Sub(k, t, MatchEnd(k, t, p))
    ELSE <<t[p]>> \o Sub(k, t, p + 1)

\* The loop over PII_PATTERNS from pattern k on: v = re.sub(pattern, ..., v).
RECURSIVE SubFrom(_, _)
SubFrom(k, v) == IF k > Len(PII_LABEL_TEXTS) THEN v ELSE SubFrom(k + 1, Sub(k, v, 1))

\* Values of a context mapping: a str, or a value of another type.
Str(t) == [type |-> "str", text |-> t]
IntValue(n) == [type |-> "int", value |-> n]

\* LLMOutputGuardrails.sanitize_context: a new mapping with every str value
\* rewritten and every other value as it is.
sanitize_context(context) ==
    [key \in DOMAIN context |->
        IF context[key].type = "str"
        THEN Str(SubFrom(1, context[key].text))
        ELSE context[key]]

\* LLMOutputGuardrails.TRANSFER_MAX_AMOUNT and TRANSFER_MIN_AMOUNT, in mills.
TRANSFER_MAX_AMOUNT == 10000000
TRANSFER_MIN_AMOUNT == 10

\* ------------------------------------------------------------ dictionaries
\* A Python dict is a function whose domain is the set of keys present.
\* dict.get(key, default)
Get(d, key, default) == IF key \in DOMAIN d THEN d[key] ELSE default

\* An amount argument is a JSON number or a JSON string:
\*   [type |-> "number", parses |-> TRUE, mills |-> n]
\*   [type |-> "string", parses |-> TRUE or FALSE, mills |-> n]
Number(n) == [type |-> "number", parses |-> TRUE, mills |-> n]
NumericString(n) == [type |-> "string", parses |-> TRUE, mills |-> n]
OtherString == [type |-> "string", parses |-> FALSE, mills |-> 0]

\* The outcome of a call: a value, or the exception it raised.
Returned(v) == [raised |-> FALSE, type |-> "", msg |-> <<>>, value |-> v]
Raised(type, msg) == [raised |-> TRUE, type |-> type, msg |-> msg, value |-> <<>>]

\* validate_transfer without the same-account check.
validate_transfer_NoSameAccountCheck(args) ==
    LET a == Get(args, "amount", Number(0))
        from_acct == Lower(Get(args, "from_account", <<>>))
        to_acct == Lower(Get(args, "to_account", <<>>))
    IN  IF ~a.parses
        THEN Raised("ValueError", <<"could not convert string to float">>)
        ELSE IF a.mills < TRANSFER_MIN_AMOUNT
        THEN Raised("GuardrailViolation", <<"Transfer amount must be at least $0.01">>)
        ELSE IF a.mills > TRANSFER_MAX_AMOUNT
        THEN Raised("GuardrailViolation",
                    <<"AI-initiated transfers are limited to $10,000. ",
                      "For larger amounts, please visit a Chase branch or call 1-800-935-9935.">>)
        ELSE IF from_acct = <<>> \/ to_acct = <<>>
        THEN Raised("GuardrailViolation", <<"Both from_account and to_account are required">>)
        ELSE Returned(args)

\* validate_transfer without the ceiling check.
validate_transfer_NoCeiling(args) ==
    LET a == Get(args, "amount", Number(0))
        from_acct == Lower(Get(args, "from_account", <<>>))
        to_acct == Lower(Get(args, "to_account", <<>>))
    IN  IF ~a.parses
        THEN Raised("ValueError", <<"could not convert string to float">>)
        ELSE IF a.mills < TRANSFER_MIN_AMOUNT
        THEN Raised("GuardrailViolation", <<"Transfer amount must be at least $0.01">>)
        ELSE IF from_acct = <<>> \/ to_acct = <<>>
        THEN Raised("GuardrailViolation", <<"Both from_account and to_account are required">>)
        ELSE IF from_acct = to_acct
        THEN Raised("GuardrailViolation", <<"Cannot transfer to the same account">>)
        ELSE Returned(args)

\* validate_transfer comparing the account names as given, without lower().
validate_transfer_CaseSensitive(args) ==
    LET a == Get(args, "amount", Number(0))
        from_acct == Get(args, "from_account", <<>>)
        to_acct == Get(args, "to_account", <<>>)
    IN  IF ~a.parses
        THEN Raised("ValueError", <<"could not convert string to float">>)
        ELSE IF a.mills < TRANSFER_MIN_AMOUNT
        THEN Raised("GuardrailViolation", <<"Transfer amount must be at least $0.01">>)
        ELSE IF a.mills > TRANSFER_MAX_AMOUNT
        THEN Raised("GuardrailViolation",
                    <<"AI-initiated transfers are limited to $10,000. ",
                      "For larger amounts, please visit a Chase branch or call 1-800-935-9935.">>)
        ELSE IF from_acct = <<>> \/ to_acct = <<>>
        THEN Raised("GuardrailViolation", <<"Both from_account and to_account are required">>)
        ELSE IF from_acct = to_acct
        THEN Raised("GuardrailViolation", <<"Cannot transfer to the same account">>)
        ELSE Returned(args)

\* LLMOutputGuardrails.validate_transfer: the arguments, or the exception
\* raised (a GuardrailViolation, or the ValueError of float()).
validate_transfer(args) ==
    LET a == Get(args, "amount", Number(0))
        from_acct == Lower(Get(args, "from_account", <<>>))
        to_acct == Lower(Get(args, "to_account", <<>>))
    IN  IF ~a.parses
        THEN Raised("ValueError", <<"could not convert string to float">>)
        ELSE IF a.mills < TRANSFER_MIN_AMOUNT
        THEN Raised("GuardrailViolation", <<"Transfer amount must be at least $0.01">>)
        ELSE IF a.mills > TRANSFER_MAX_AMOUNT
        THEN Raised("GuardrailViolation",
                    <<"AI-initiated transfers are limited to $10,000. ",
                      "For larger amounts, please visit a Chase branch or call 1-800-935-9935.">>)
        ELSE IF from_acct = <<>> \/ to_acct = <<>>
        THEN Raised("GuardrailViolation", <<"Both from_account and to_account are required">>)
        ELSE IF from_acct = to_acct
        THEN Raised("GuardrailViolation", <<"Cannot transfer to the same account">>)
        ELSE Returned(args)

\* ---------------------------------------------------------------- samples
\* Draft ids: what f"draft_{uuid.uuid4().hex[:8]}" may produce, and what a
\* caller or the reasoning service may name.
DRAFT_IDS == {"draft_a1", "draft_b2"}

CHECKING == <<"c", "h", "e", "c", "k", "i", "n", "g">>
CHECKING_CAPS == <<"C", "h", "e", "c", "k", "i", "n", "g">>
SAVINGS == <<"s", "a", "v", "i", "n", "g", "s">>

SAFE_TEXT == <<"o", "k">>
CVV_TEXT == <<"c", "v", "v", " ", "1", "2", "3">>

\* Content blocks of a response. A text block has a text attribute; a
\* tool_use block has id, name and input. The id is set by position when the
\* response is built.
TextBlock(t) == [type |-> "text", text |-> t]
ToolUse(name, input) == [type |-> "tool_use", id |-> 0, name |-> name, input |-> input]

StageArgs(f, t, a) == [from_account |-> f, to_account |-> t, amount |-> a]
ExecuteArgs(d) == [approved_draft_id |-> d, confirmation_token |-> "tok"]

\* The blocks the reasoning service proposes under the main specification.
CorePool ==
    { TextBlock(SAFE_TEXT),
      TextBlock(CVV_TEXT),
      ToolUse("stage_transfer", StageArgs(CHECKING, SAVINGS, Number(500000))),
      ToolUse("stage_transfer", StageArgs(CHECKING, SAVINGS, Number(50000000))),
      ToolUse("execute_transfer", ExecuteArgs("draft_a1")),
      ToolUse("execute_transfer", [approved_draft_id |-> "draft_a1"]),
      ToolUse("get_account_summary", [account_type |-> "checking"]),
      ToolUse("close_account", [account_type |-> "checking"]) }

\* Texts for the output scan: one per pattern of PII_PATTERNS, and texts no
\* pattern matches (17 digits, a bare label, three digits, a balance).
CARD16_TEXT == <<"4", "1", "1", "1", "1", "1", "1", "1", "1", "1", "1", "1", "1", "1", "1", "1">>
CARD17_TEXT == <<"4", "1", "1", "1", "1", "1", "1", "1", "1", "1", "1", "1", "1", "1", "1", "1", "2">>
FORMATTED_CARD_TEXT == <<"4", "1", "1", "1", " ", "1", "1", "1", "1", "-", "1", "1", "1", "1", " ", "1", "1", "1", "1">>
SSN_TEXT == <<"i", "d", " ", "1", "2", "3", "-", "4", "5", "-", "6", "7", "8", "9">>
NINE_DIGIT_TEXT == <<"1", "2", "3", "4", "5", "6", "7", "8", "9">>
PIN_TEXT == <<"P", "I", "N", ":", " ", "1", "2", "3", "4">>
PASSWORD_TEXT == <<"P", "a", "s", "s", "w", "o", "r", "d", "=", "x">>
SECRET_TEXT == <<"s", "e", "c", "r", "e", "t", ":", " ", "y">>
API_KEY_TEXT == <<"a", "p", "i", "_", "k", "e", "y", "=", "Z">>
CVV_LABEL_TEXT == <<"c", "v", "v">>
THREE_DIGIT_TEXT == <<"1", "2", "3">>
BALANCE_TEXT == <<"$", "4", "8", "2", "1", ".", "5", "0">>

\* The blocks of the specification of the output scan.
OutputPool ==
    {TextBlock(t) : t \in {SAFE_TEXT, CVV_TEXT, CARD16_TEXT, CARD17_TEXT,
                           FORMATTED_CARD_TEXT, SSN_TEXT, NINE_DIGIT_TEXT, PIN_TEXT,
                           PASSWORD_TEXT, SECRET_TEXT, API_KEY_TEXT, CVV_LABEL_TEXT,
                           THREE_DIGIT_TEXT, BALANCE_TEXT}}
    \cup {ToolUse("get_account_summary", [account_type |-> "checking"])}

\* The blocks of the specification of the transfer guardrail: stage_transfer
\* invocations around every predicate of validate_transfer.
TransferPool ==
    {ToolUse("stage_transfer", StageArgs(CHECKING, SAVINGS, a)) :
        a \in {Number(-1000), Number(0), Number(9), Number(10), Number(500000),
               Number(10000000), Number(10000001), NumericString(500000),
               NumericString(50000000), OtherString}}
    \cup {ToolUse("stage_transfer", StageArgs(f, t, Number(500000))) :
            f \in {<<>>, CHECKING, CHECKING_CAPS}, t \in {<<>>, CHECKING, SAVINGS}}
    \cup {ToolUse("stage_transfer", [to_account |-> SAVINGS, amount |-> Number(500000)]),
          ToolUse("stage_transfer", [from_account |-> CHECKING, amount |-> Number(500000)]),
          ToolUse("stage_transfer", [from_account |-> CHECKING, to_account |-> SAVINGS]),
          ToolUse("stage_transfer", StageArgs(CHECKING, CHECKING, Number(10000001))),
          ToolUse("stage_transfer", [from_account |-> SAVINGS, to_account |-> CHECKING,
                                     amount |-> Number(10), memo |-> <<"r", "e", "n", "t">>]),
          TextBlock(SAFE_TEXT)}

\* The blocks of the specification of the execute gate: execute_transfer
\* invocations with and without confirmation_token, for two draft ids, and
\* stage_transfer invocations, one that passes validation and one vetoed.
ExecutePool ==
    { ToolUse("stage_transfer", StageArgs(CHECKING, SAVINGS, Number(500000))),
      ToolUse("stage_transfer", StageArgs(CHECKING, SAVINGS, Number(50000000))),
      ToolUse("execute_transfer", ExecuteArgs("draft_a1")),
      ToolUse("execute_transfer", [approved_draft_id |-> "draft_a1"]),
      ToolUse("execute_transfer", [approved_draft_id |-> "draft_a1",
                                   confirmation_token |-> ""]),
      ToolUse("execute_transfer", ExecuteArgs("draft_b2")) }

\* The blocks of the specifications of the session context and of concurrent
\* invocations.
SmallPool ==
    { TextBlock(SAFE_TEXT),
      ToolUse("get_account_summary", [account_type |-> "checking"]),
      ToolUse("stage_transfer", StageArgs(CHECKING, SAVINGS, Number(500000))) }

\* The blocks of the specification of the action list: a staging that passes
\* validation, one that is vetoed, an execution and a query.
ActionsPool ==
    { ToolUse("stage_transfer", StageArgs(CHECKING, SAVINGS, Number(500000))),
      ToolUse("stage_transfer", StageArgs(CHECKING, SAVINGS, Number(50000000))),
      ToolUse("execute_transfer", ExecuteArgs("draft_a1")),
      ToolUse("get_account_summary", [account_type |-> "checking"]) }

\* The names of TOOLS, the catalog offered to the reasoning service.
TOOL_NAMES ==
    {"get_account_summary", "stage_transfer", "execute_transfer", "get_investment_portfolio",
     "get_market_rates", "file_fraud_dispute", "get_spending_analysis"}

\* The blocks of the specification of the catalog: an invocation of a tool
\* that is not in TOOLS, and one of a tool that is.
CatalogPool ==
    { ToolUse("close_account", [account_type |-> "checking"]),
      ToolUse("get_account_summary", [account_type |-> "checking"]) }

\* The block of the specification of the iteration cap.
CapPool ==
    { ToolUse("stage_transfer", StageArgs(CHECKING, SAVINGS, Number(500000))) }

\* Sequences over S of length at most n.
SeqUpTo(S, n) == UNION {[1..k -> S] : k \in 0..n}

\* The content of a response: the blocks, each tool_use block with its call id.
WithIds(blocks) ==
    [i \in 1..Len(blocks) |->
        IF blocks[i].type = "tool_use" THEN [blocks[i] EXCEPT !.id = i] ELSE blocks[i]]

HasToolUse(blocks) == \E i \in 1..Len(blocks) : blocks[i].type = "tool_use"

\* What client.messages.create may return: a final answer (end_turn), proposed
\* tool invocations (tool_use), or a truncated answer without tool invocation
\* (max_tokens).
Responses(blocks) ==
    {[stop_reason |-> "end_turn", content |-> WithIds(c)] : c \in SeqUpTo(blocks, MaxBlocks)}
    \cup {[stop_reason |-> "tool_use", content |-> WithIds(c)] :
             c \in {d \in SeqUpTo(blocks, MaxBlocks) : HasToolUse(d)}}
    \cup {[stop_reason |-> "max_tokens", content |-> WithIds(c)] :
             c \in {d \in SeqUpTo(blocks, MaxBlocks) : ~HasToolUse(d)}}

\* Authorization headers.
BEARER_PREFIX == <<"B", "e", "a", "r", "e", "r", " ">>
AUTH_OK == <<"B", "e", "a", "r", "e", "r", " ", "t">>
AUTH_EMPTY_TOKEN == <<"B", "e", "a", "r", "e", "r", " ">>
AUTH_BASIC == <<"B", "a", "s", "i", "c", " ", "t">>

\* Bodies of POST /agent/query. max_iterations is the cap run_cloud_agent is
\* called with (the route itself leaves it at the default).
QueryRequests ==
    [route : {"/agent/query"},
     authorization : {AUTH_OK, AUTH_BASIC},
     query : {<<"h", "i">>},
     intent : {<<"t", "r", "a", "n", "s", "f", "e", "r">>},
     context_summary : {<<"v", "i", "p">>},
     session_id : {<<"s", "1">>},
     approved_draft_ids : {{}, {"draft_a1"}},
     max_iterations : 0..MaxIter]

\* Bodies of POST /agent/query whose intent, context_summary and session_id
\* are what a caller may send, sensitive data included.
ContextRequests ==
    [route : {"/agent/query"},
     authorization : {AUTH_OK, AUTH_BASIC},
     query : {<<"h", "i">>},
     intent : {<<"t", "r", "a", "n", "s", "f", "e", "r">>, PASSWORD_TEXT},
     context_summary : {<<"v", "i", "p">>, SSN_TEXT, CVV_TEXT},
     session_id : {<<"s", "1">>, NINE_DIGIT_TEXT},
     approved_draft_ids : {{}},
     max_iterations : {1}]

\* Bodies of POST /agent/transfer/execute.
ExecuteRequests ==
    [route : {"/agent/transfer/execute"},
     authorization : {AUTH_OK, AUTH_EMPTY_TOKEN},
     draft_id : DRAFT_IDS \cup {""},
     confirmation_token : {"tok", ""}]

\* Requests on both routes with every kind of Authorization header: a bearer
\* token, an empty token, another scheme, the scheme in lower case, an empty
\* header.
AUTH_LOWER_CASE == <<"b", "e", "a", "r", "e", "r", " ", "t">>

AuthRequests ==
    [route : {"/agent/query"},
     authorization : {AUTH_OK, AUTH_EMPTY_TOKEN, AUTH_BASIC, AUTH_LOWER_CASE, <<>>},
     query : {<<"h", "i">>},
     intent : {<<"t", "r", "a", "n", "s", "f", "e", "r">>},
     context_summary : {<<"v", "i", "p">>},
     session_id : {<<"s", "1">>},
     approved_draft_ids : {{"draft_a1"}},
     max_iterations : {1}]
    \cup [route : {"/agent/transfer/execute"},
          authorization : {AUTH_OK, AUTH_EMPTY_TOKEN, AUTH_BASIC, AUTH_LOWER_CASE, <<>>},
          draft_id : DRAFT_IDS \cup {""},
          confirmation_token : {"tok", ""}]

\* ------------------------------------------------------------------- auth
StartsWith(t, prefix) ==
    Len(t) >= Len(prefix) /\ \A i \in 1..Len(prefix) : t[i] = prefix[i]

\* str.split(" ", 1)[1]: what follows the first space.
AfterFirstSpace(t) ==
    LET p == Min({i \in 1..Len(t) : t[i] = " "}) IN SubSeq(t, p + 1, Len(t))

\* verify_token that takes the token of any scheme.
verify_token_AnyScheme(authorization) ==
    IF \A i \in 1..Len(authorization) : authorization[i] # " "
    THEN Raised("HTTPException", <<"401", "Invalid authorization header">>)
    ELSE IF AfterFirstSpace(authorization) = <<>>
    THEN Raised("HTTPException", <<"401", "Missing token">>)
    ELSE Returned("dev_user_001")

\* security/auth.py verify_token: the user id, or HTTPException(401).
verify_token(authorization) ==
    IF ~StartsWith(authorization, BEARER_PREFIX)
    THEN Raised("HTTPException", <<"401", "Invalid authorization header">>)
    ELSE IF AfterFirstSpace(authorization) = <<>>
    THEN Raised("HTTPException", <<"401", "Missing token">>)
    ELSE Returned("dev_user_001")

\* -------------------------------------------------------------- tool layer
\* What a remote collaborator does with a call: it answers, or the call fails
\* (transport error, timeout, server error).
RemoteOutcomes == {"ok", "error"}

\* One call of a collaborator of tools/banking_tools.py, as recorded in calls.
Call(fn, draft_id, via, remote) ==
    [fn |-> fn, draft_id |-> draft_id, via |-> via, outcome |-> remote]

\* The result of execute_tool: its return value or exception, and the
\* collaborator calls it made.
ToolReturn(output, action, made) ==
    [raised |-> FALSE, type |-> "", msg |-> <<>>, output |-> output, action |-> action,
     made |-> made]
ToolRaise(type, msg, made) ==
    [raised |-> TRUE, type |-> type, msg |-> msg, output |-> <<>>, action |-> <<>>,
     made |-> made]

\* Collaborate reporting every tool call as an action.
Collaborate_WithAction(fn, draft_id, remote, output) ==
    IF remote = "error"
    THEN ToolRaise("RemoteError", <<fn, " failed">>, <<Call(fn, draft_id, "agent", remote)>>)
    ELSE ToolReturn(output, <<[type |-> "tool_called", payload |-> [tool |-> fn]]>>,
                    <<Call(fn, draft_id, "agent", remote)>>)

\* A collaborator call from execute_tool: the collaborator's text, or its error.
Collaborate(fn, draft_id, remote, output) ==
    IF remote = "error"
    THEN ToolRaise("RemoteError", <<fn, " failed">>, <<Call(fn, draft_id, "agent", remote)>>)
    ELSE ToolReturn(output, <<>>, <<Call(fn, draft_id, "agent", remote)>>)

\* tools/banking_tools.py execute_transfer_api: the confirmation text.
execute_transfer_api(draft_id) ==
    <<"Transfer ", draft_id, " executed successfully. Confirmation: TXN_", draft_id>>

\* UnknownTool raising instead of answering.
UnknownTool_Raising(name) == ToolRaise("ValueError", <<"Unknown tool: ", name>>, <<>>)

\* The last line of execute_tool: return {"output": f"Unknown tool: {name}"}
UnknownTool(name) == ToolReturn(<<"Unknown tool: ", name>>, <<>>, <<>>)

\* execute_tool reading the token with args.get("confirmation_token", "").
execute_tool_DefaultToken(name, args, ctx, uuid, remote) ==
    CASE name = "get_account_summary" ->
            Collaborate("get_account_summary", "", remote, <<"Account balances">>)
      [] name = "stage_transfer" ->
            IF {"from_account", "to_account", "amount"} \ DOMAIN args # {}
            THEN ToolRaise("KeyError", <<"missing argument">>, <<>>)
            ELSE IF args["amount"].type = "string"
            THEN ToolRaise("ValueError", <<"Unknown format code 'f' for object of type 'str'">>,
                           <<>>)
            ELSE ToolReturn(
                    <<"Transfer staged: Draft ID: ", uuid,
                      " Status: Awaiting user confirmation in app">>,
                    <<[type |-> "transfer_staged",
                       payload |-> [draft_id |-> uuid,
                                    from_account |-> args["from_account"],
                                    to_account |-> args["to_account"],
                                    amount |-> args["amount"].mills,
                                    memo |-> Get(args, "memo", <<>>)]]>>,
                    <<>>)
      [] name = "execute_transfer" ->
            IF "approved_draft_id" \notin DOMAIN args
            THEN ToolRaise("KeyError", <<"missing argument">>, <<>>)
            ELSE Collaborate("execute_transfer_api", args["approved_draft_id"], remote,
                             execute_transfer_api(args["approved_draft_id"]))
      [] name = "get_investment_portfolio" ->
            Collaborate("get_investment_portfolio", "", remote, <<"Investment Portfolio">>)
      [] name = "get_market_rates" ->
            Collaborate("get_market_rates", "", remote, <<"Rates">>)
      [] name = "file_fraud_dispute" ->
            IF {"transaction_id", "reason"} \ DOMAIN args # {}
            THEN ToolRaise("KeyError", <<"missing argument">>, <<>>)
            ELSE Collaborate("file_fraud_dispute", "", remote, <<"Fraud dispute filed">>)
      [] name = "get_spending_analysis" ->
            Collaborate("get_spending_analysis", "", remote, <<"Spending Analysis">>)
      [] OTHER -> UnknownTool(name)

\* agents/orchestrator.py execute_tool. uuid is the draft id that uuid4 yields,
\* remote the collaborator's outcome. The action of a staged transfer is
\* <<action>>, no action is <<>>.
execute_tool(name, args, ctx, uuid, remote) ==
    CASE name = "get_account_summary" ->
            Collaborate("get_account_summary", "", remote, <<"Account balances">>)
      [] name = "stage_transfer" ->
            IF {"from_account", "to_account", "amount"} \ DOMAIN args # {}
            THEN ToolRaise("KeyError", <<"missing argument">>, <<>>)
            ELSE IF args["amount"].type = "string"
            THEN ToolRaise("ValueError", <<"Unknown format code 'f' for object of type 'str'">>,
                           <<>>)
            ELSE ToolReturn(
                    <<"Transfer staged: Draft ID: ", uuid,
                      " Status: Awaiting user confirmation in app">>,
                    <<[type |-> "transfer_staged",
                       payload |-> [draft_id |-> uuid,
                                    from_account |-> args["from_account"],
                                    to_account |-> args["to_account"],
                                    amount |-> args["amount"].mills,
                                    memo |-> Get(args, "memo", <<>>)]]>>,
                    <<>>)
      [] name = "execute_transfer" ->
            IF {"approved_draft_id", "confirmation_token"} \ DOMAIN args # {}
            THEN ToolRaise("KeyError", <<"missing argument">>, <<>>)
            ELSE Collaborate("execute_transfer_api", args["approved_draft_id"], remote,
                             execute_transfer_api(args["approved_draft_id"]))
      [] name = "get_investment_portfolio" ->
            Collaborate("get_investment_portfolio", "", remote, <<"Investment Portfolio">>)
      [] name = "get_market_rates" ->
            Collaborate("get_market_rates", "", remote, <<"Rates">>)
      [] name = "file_fraud_dispute" ->
            IF {"transaction_id", "reason"} \ DOMAIN args # {}
            THEN ToolRaise("KeyError", <<"missing argument">>, <<>>)
            ELSE Collaborate("file_fraud_dispute", "", remote, <<"Fraud dispute filed">>)
      [] name = "get_spending_analysis" ->
            Collaborate("get_spending_analysis", "", remote, <<"Spending Analysis">>)
      [] OTHER -> UnknownTool(name)

\* ------------------------------------------------------------------ state
VARIABLES
    pc,             \* "idle": request received; "loop": at the while test of
                    \* run_cloud_agent; "tools": in the for loop over the
                    \* response's blocks; "done": the request is answered
    request,        \* the HTTP request being handled
    pool,           \* the content blocks the reasoning service draws from
    messages,       \* run_cloud_agent: the conversation
    actions_taken,  \* run_cloud_agent: the action list
    iteration,      \* run_cloud_agent: the round counter
    response,       \* run_cloud_agent: the response of the current round
    block_index,    \* run_cloud_agent: position of the for loop in response.content
    tool_results,   \* run_cloud_agent: the tool results of the current round
    ledger,         \* the records of the audit log file, in file order
    calls,          \* the calls received by the collaborators of banking_tools
    result,         \* what run_cloud_agent returned or raised
    reply,          \* the HTTP response
    llm_calls,      \* number of calls of client.messages.create
    tool_attempts,  \* number of tool_use blocks the for loop has taken up
    log_calls,      \* the calls of audit.log that returned, in the order they
                    \* returned, each with the invocation that made it
    clock,          \* the system clock that datetime.utcnow() reads
    peer_actions_taken,  \* the action list of the concurrent invocation
    context,        \* sanitize_context: the mapping it is called with
    sanitized       \* sanitize_context: the mapping it returned

vars == <<pc, request, pool, messages, actions_taken, iteration, response, block_index,
          tool_results, ledger, calls, result, reply, llm_calls, tool_attempts, log_calls,
          clock, peer_actions_taken, context, sanitized>>

\* ------------------------------------------------------------ audit ledger
\* What the write of security/audit.py does: it appends the record, or the
\* storage fails (open or write raises OSError).
StorageOutcomes == {"ok", "error"}

\* log with the file opened for writing instead of appending.
log_Overwriting(l, event, metadata) ==
    <<[event |-> event, timestamp |-> clock, metadata |-> metadata]>>

\* log that writes nothing when the last record of the file equals the new one.
log_SkippingRepeats(l, event, metadata) ==
    IF l # <<>> /\ l[Len(l)] = [event |-> event, timestamp |-> clock, metadata |-> metadata]
    THEN l
    ELSE Append(l, [event |-> event, timestamp |-> clock, metadata |-> metadata])

\* log that puts the new record in front of those written before.
log_Prepending(l, event, metadata) ==
    <<[event |-> event, timestamp |-> clock, metadata |-> metadata]>> \o l

\* log with the timestamp evaluated once, when the logger was created.
log_FrozenTimestamp(l, event, metadata) ==
    Append(l, [event |-> event, timestamp |-> 0, metadata |-> metadata])

\* AuditLogger.log: the ledger with the record appended at its end. The
\* timestamp of the record is the reading of the clock when log runs.
log(l, event, metadata) ==
    Append(l, [event |-> event, timestamp |-> clock, metadata |-> metadata])

\* One returned call of audit.log, as recorded in log_calls.
LogCall(by, event, metadata) ==
    [by |-> by, event |-> event, timestamp |-> clock, metadata |-> metadata]

\* The approval check left out.
IsApproved_Always(draft_id, approved) == TRUE

\* The approval check also accepting the drafts this invocation staged.
IsApproved_OrStaged(draft_id, approved) ==
    \/ draft_id \in approved
    \/ \E i \in 1..Len(actions_taken) : actions_taken[i].payload.draft_id = draft_id

\* run_cloud_agent's approval check: draft_id in approved_draft_ids.
IsApproved(draft_id, approved) == draft_id \in approved

\* The loop as a do-while: the first round runs whatever the cap.
LoopContinues_AtLeastOnce(i, cap) == i < cap \/ i = 0

\* The loop test off by one.
LoopContinues_OffByOne(i, cap) == i <= cap

\* run_cloud_agent's loop test: iteration < max_iterations.
LoopContinues(i, cap) == i < cap

\* The tool result that refuses an unapproved execute_transfer.
UNAPPROVED_RESULT ==
    <<"ERROR: This transfer has not been approved by the user. ",
      "Please show them the confirmation UI first.">>

\* The text returned when max_iterations is exhausted.
FALLBACK_TEXT ==
    <<"I", " ", "w", "a", "s", "n", "'", "t", " ", "a", "b", "l", "e", " ", "t", "o", " ",
      "c", "o", "m", "p", "l", "e", "t", "e", " ", "t", "h", "a", "t", " ", "i", "n", " ",
      "t", "i", "m", "e", ".", " ", "P", "l", "e", "a", "s", "e", " ", "t", "r", "y", " ",
      "a", "g", "a", "i", "n", ".">>

\* " ".join(texts)
RECURSIVE Join(_)
Join(texts) ==
    IF texts = <<>> THEN <<>>
    ELSE IF Len(texts) = 1 THEN texts[1]
    ELSE texts[1] \o <<" ">> \o Join(Tail(texts))

\* [b.text for b in content if hasattr(b, "text")]
RECURSIVE TextBlocks(_)
TextBlocks(content) ==
    IF content = <<>> THEN <<>>
    ELSE (IF "text" \in DOMAIN content[1] THEN <<content[1].text>> ELSE <<>>)
         \o TextBlocks(Tail(content))

\* ------------------------------------------------------------ the request
NoResponse == [stop_reason |-> "", content |-> <<>>]
NoResult == [kind |-> "none", text |-> <<>>, actions |-> <<>>, type |-> "", msg |-> <<>>]
NoReply == [status |-> 0, text |-> <<>>, actions |-> <<>>, detail |-> <<>>]

\* The arguments agent_query passes to run_cloud_agent.
user_message == request.query
intent == request.intent
approved_draft_ids == request.approved_draft_ids
max_iterations == request.max_iterations
user_context == [user_id |-> "dev_user_001",
                 context_summary |-> request.context_summary,
                 session_id |-> request.session_id]

InitWith(requests, blocks) ==
    /\ pc = "idle"
    /\ request \in requests
    /\ pool = blocks
    /\ messages = <<>>
    /\ actions_taken = <<>>
    /\ iteration = 0
    /\ response = NoResponse
    /\ block_index = 0
    /\ tool_results = <<>>
    /\ ledger = <<>>
    /\ calls = <<>>
    /\ result = NoResult
    /\ reply = NoReply
    /\ llm_calls = 0
    /\ tool_attempts = 0
    /\ log_calls = <<>>
    /\ clock = 0
    /\ peer_actions_taken = <<>>
    /\ context = <<>>
    /\ sanitized = <<>>

Init == InitWith(QueryRequests \cup ExecuteRequests, CorePool)

\* Requests whose invocation makes a single round.
OneRoundRequests == {r \in QueryRequests : r.max_iterations = 1} \cup ExecuteRequests

\* The output scan on many texts, the transfer guardrail on many arguments.
InitOutput == InitWith(OneRoundRequests, OutputPool)
InitTransfer == InitWith(OneRoundRequests, TransferPool)

\* The execute gate on execute_transfer invocations of every shape; requests
\* with sensitive session context; an invocation with a concurrent one.
InitExecute == InitWith(OneRoundRequests, ExecutePool)
InitContext == InitWith(ContextRequests \cup ExecuteRequests, SmallPool)
InitConcurrent == InitWith(OneRoundRequests, SmallPool)

\* Requests whose invocation makes at most two rounds.
TwoRoundRequests == {r \in QueryRequests : r.max_iterations <= 2} \cup ExecuteRequests

\* Requests with every cap run_cloud_agent may be called with, zero and a
\* negative one included.
CapRequests ==
    [route : {"/agent/query"},
     authorization : {AUTH_OK, AUTH_BASIC},
     query : {<<"h", "i">>},
     intent : {<<"t", "r", "a", "n", "s", "f", "e", "r">>},
     context_summary : {<<"v", "i", "p">>},
     session_id : {<<"s", "1">>},
     approved_draft_ids : {{}},
     max_iterations : (-1)..MaxIter]

\* Requests served while the clock runs; two rounds; every cap.
InitClock == InitWith(OneRoundRequests, SmallPool)
InitRounds == InitWith(TwoRoundRequests, SmallPool)
InitCaps == InitWith(CapRequests \cup ExecuteRequests, CapPool)
InitActions == InitWith(TwoRoundRequests, ActionsPool)
InitAuth == InitWith(AuthRequests, SmallPool)
InitCatalog == InitWith(TwoRoundRequests, CatalogPool)

\* run_cloud_agent returns {"text": text, "actions": actions_taken}, and
\* agent_query answers with it.
Return(text, actions) ==
    /\ result' = [kind |-> "returned", text |-> text, actions |-> actions,
                  type |-> "", msg |-> <<>>]
    /\ reply' = [status |-> 200, text |-> text, actions |-> actions, detail |-> <<>>]
    /\ pc' = "done"

\* Raise with the while loop going on after the failure (a retry).
Raise_AndRetry(type, msg) ==
    /\ result' = [kind |-> "raised", text |-> <<>>, actions |-> <<>>,
                  type |-> type, msg |-> msg]
    /\ reply' = [status |-> 500, text |-> <<>>, actions |-> <<>>, detail |-> msg]
    /\ pc' = "loop"

\* An exception leaves run_cloud_agent, and agent_query turns it into
\* HTTPException(500, detail=str(e)).
Raise(type, msg) ==
    /\ result' = [kind |-> "raised", text |-> <<>>, actions |-> <<>>,
                  type |-> type, msg |-> msg]
    /\ reply' = [status |-> 500, text |-> <<>>, actions |-> <<>>, detail |-> msg]
    /\ pc' = "done"

\* The first turn of the conversation.
FirstMessage ==
    [role |-> "user",
     content |-> user_message
        \o <<"\n", "\n", "U", "s", "e", "r", " ", "c", "o", "n", "t", "e", "x", "t", ":", " ">>
        \o user_context.context_summary
        \o <<"\n", "I", "n", "t", "e", "n", "t", ":", " ">>
        \o intent
        \o <<"\n", "S", "e", "s", "s", "i", "o", "n", ":", " ">>
        \o user_context.session_id]

\* ---------------------------------------------------------------- actions
\* POST /agent/query up to the while loop of run_cloud_agent: verify_token,
\* then the initial conversation, action list and round counter.
AgentQuery ==
    /\ pc = "idle"
    /\ request.route = "/agent/query"
    /\ LET user == verify_token(request.authorization)
       IN  \/ /\ user.raised
              /\ reply' = [status |-> 401, text |-> <<>>, actions |-> <<>>,
                           detail |-> user.msg]
              /\ pc' = "done"
              /\ UNCHANGED <<messages, actions_taken, iteration>>
           \/ /\ ~user.raised
              /\ messages' = <<FirstMessage>>
              /\ actions_taken' = <<>>
              /\ iteration' = 0
              /\ pc' = "loop"
              /\ UNCHANGED reply
    /\ UNCHANGED <<request, pool, response, block_index, tool_results, ledger, calls,
                   result, llm_calls, tool_attempts, log_calls, clock,
                   peer_actions_taken,
                   context, sanitized>>

\* IsEndTurn taking every response that is not tool_use for the final answer.
IsEndTurn_OrNotToolUse(r) == r.stop_reason # "tool_use"

\* if response.stop_reason == "end_turn"
IsEndTurn(r) == r.stop_reason = "end_turn"

\* LlmCallMetadata counting the rounds from zero.
LlmCallMetadata_ZeroBased(i, r) ==
    [user_id |-> user_context.user_id,
     session_id |-> user_context.session_id,
     iteration |-> i - 1,
     stop_reason |-> r.stop_reason,
     intent |-> intent]

\* The metadata of the llm_call audit event.
LlmCallMetadata(i, r) ==
    [user_id |-> user_context.user_id,
     session_id |-> user_context.session_id,
     iteration |-> i,
     stop_reason |-> r.stop_reason,
     intent |-> intent]

\* One round of the while loop up to the for loop: the call of the reasoning
\* service, its audit event, and the return on end_turn.
LLMCall ==
    /\ pc = "loop"
    /\ LoopContinues(iteration, max_iterations)
    /\ iteration' = iteration + 1
    /\ llm_calls' = llm_calls + 1
    /\ \/ \* client.messages.create raises
          /\ Raise("APIError", <<"reasoning service unavailable">>)
          /\ UNCHANGED <<response, ledger, log_calls, block_index, tool_results>>
       \/ \E r \in Responses(pool) :
             /\ response' = r
             /\ \/ \* audit.log raises
                   /\ Raise("OSError", <<"audit log write failed">>)
                   /\ UNCHANGED <<ledger, log_calls, block_index, tool_results>>
                \/ /\ ledger' = log(ledger, "llm_call", LlmCallMetadata(iteration', r))
                   /\ log_calls' = Append(log_calls,
                         LogCall("request", "llm_call", LlmCallMetadata(iteration', r)))
                   /\ IF IsEndTurn(r)
                      THEN LET raw_text == Join(TextBlocks(r.content))
                               safe_text == validate_output(raw_text)
                           IN  /\ IF safe_text.raised
                                  THEN Raise(safe_text.type, safe_text.msg)
                                  ELSE Return(safe_text.value, actions_taken)
                               /\ UNCHANGED <<block_index, tool_results>>
                      ELSE /\ tool_results' = <<>>
                           /\ block_index' = 1
                           /\ pc' = "tools"
                           /\ UNCHANGED <<result, reply>>
    /\ UNCHANGED <<request, pool, messages, actions_taken, calls, tool_attempts, clock,
                   peer_actions_taken,
                   context, sanitized>>

\* ToolResult that does not carry the call id of the invocation.
ToolResult_ResponseId(id, content) ==
    [type |-> "tool_result", tool_use_id |-> 0, content |-> content]

\* A tool_result entry of tool_results.
ToolResult(id, content) == [type |-> "tool_result", tool_use_id |-> id, content |-> content]

\* The metadata of the tool_call audit event.
ToolCallMetadata(tool_name) ==
    [user_id |-> user_context.user_id, tool |-> tool_name, has_result |-> "yes"]

\* One pass of the for loop over response.content.
ProcessBlock ==
    /\ pc = "tools"
    /\ block_index <= Len(response.content)
    /\ LET block == response.content[block_index]
       IN  IF block.type # "tool_use"
           THEN /\ block_index' = block_index + 1
                /\ UNCHANGED <<pc, tool_results, actions_taken, ledger, log_calls, calls,
                               result, reply, tool_attempts>>
           ELSE LET tool_name == block.name
                    tool_args == block.input
                    verdict == validate_transfer(tool_args)
                    draft_id == Get(tool_args, "approved_draft_id", "")
                IN  /\ tool_attempts' = tool_attempts + 1
                    /\ IF tool_name = "stage_transfer" /\ verdict.raised
                       THEN \* blocked by the transfer guardrail
                            /\ tool_results' = Append(tool_results,
                                  ToolResult(block.id, <<"Blocked by guardrail: ">> \o verdict.msg))
                            /\ block_index' = block_index + 1
                            /\ UNCHANGED <<pc, actions_taken, ledger, log_calls, calls, result,
                                           reply>>
                       ELSE IF tool_name = "execute_transfer"
                               /\ ~IsApproved(draft_id, approved_draft_ids)
                       THEN \* refused: not approved
                            /\ tool_results' = Append(tool_results,
                                  ToolResult(block.id, UNAPPROVED_RESULT))
                            /\ block_index' = block_index + 1
                            /\ UNCHANGED <<pc, actions_taken, ledger, log_calls, calls, result,
                                           reply>>
                       ELSE \E uuid \in DRAFT_IDS, remote \in RemoteOutcomes,
                               storage \in StorageOutcomes :
                            LET res == execute_tool(tool_name, tool_args, user_context,
                                                    uuid, remote)
                            IN  /\ calls' = calls \o res.made
                                /\ IF res.raised
                                   THEN /\ Raise(res.type, res.msg)
                                        /\ UNCHANGED <<tool_results, actions_taken, ledger,
                                                       log_calls, block_index>>
                                   ELSE /\ tool_results' = Append(tool_results,
                                              ToolResult(block.id, res.output))
                                        /\ actions_taken' = actions_taken \o res.action
                                        /\ IF storage = "error"
                                           THEN /\ Raise("OSError", <<"audit log write failed">>)
                                                /\ UNCHANGED <<ledger, log_calls, block_index>>
                                           ELSE /\ ledger' = log(ledger, "tool_call",
                                                                 ToolCallMetadata(tool_name))
                                                /\ log_calls' = Append(log_calls,
                                                      LogCall("request", "tool_call",
                                                              ToolCallMetadata(tool_name)))
                                                /\ block_index' = block_index + 1
                                                /\ UNCHANGED <<pc, result, reply>>
    /\ UNCHANGED <<request, pool, messages, iteration, response, llm_calls, clock,
                   peer_actions_taken,
                   context, sanitized>>

\* list(reversed(s))
Reverse(s) == [i \in 1..Len(s) |-> s[Len(s) + 1 - i]]

\* EndRound handing the tool results over in reverse order.
EndRound_ReversedResults ==
    /\ pc = "tools"
    /\ block_index > Len(response.content)
    /\ messages' = messages \o <<[role |-> "assistant", content |-> response.content],
                                 [role |-> "user", content |-> Reverse(tool_results)]>>
    /\ pc' = "loop"
    /\ UNCHANGED <<request, pool, actions_taken, iteration, response, block_index,
                   tool_results, ledger, calls, result, reply, llm_calls, tool_attempts,
                   log_calls, clock, peer_actions_taken,
                   context, sanitized>>

\* EndRound without the turn of the reasoning service.
EndRound_DroppingAssistantTurn ==
    /\ pc = "tools"
    /\ block_index > Len(response.content)
    /\ messages' = messages \o <<[role |-> "user", content |-> tool_results]>>
    /\ pc' = "loop"
    /\ UNCHANGED <<request, pool, actions_taken, iteration, response, block_index,
                   tool_results, ledger, calls, result, reply, llm_calls, tool_attempts,
                   log_calls, clock, peer_actions_taken,
                   context, sanitized>>

\* After the for loop: the response and the tool results join the conversation.
EndRound ==
    /\ pc = "tools"
    /\ block_index > Len(response.content)
    /\ messages' = messages \o <<[role |-> "assistant", content |-> response.content],
                                 [role |-> "user", content |-> tool_results]>>
    /\ pc' = "loop"
    /\ UNCHANGED <<request, pool, actions_taken, iteration, response, block_index,
                   tool_results, ledger, calls, result, reply, llm_calls, tool_attempts,
                   log_calls, clock, peer_actions_taken,
                   context, sanitized>>

\* The while loop ends without a final answer.
Fallback ==
    /\ pc = "loop"
    /\ ~LoopContinues(iteration, max_iterations)
    /\ Return(FALLBACK_TEXT, actions_taken)
    /\ UNCHANGED <<request, pool, messages, actions_taken, iteration, response, block_index,
                   tool_results, ledger, calls, llm_calls, tool_attempts, log_calls, clock,
                   peer_actions_taken,
                   context, sanitized>>

\* POST /agent/transfer/execute.
TransferExecute ==
    /\ pc = "idle"
    /\ request.route = "/agent/transfer/execute"
    /\ pc' = "done"
    /\ LET user == verify_token(request.authorization)
       IN  IF user.raised
           THEN /\ reply' = [status |-> 401, text |-> <<>>, actions |-> <<>>,
                             detail |-> user.msg]
                /\ UNCHANGED calls
           ELSE IF request.draft_id = "" \/ request.confirmation_token = ""
           THEN /\ reply' = [status |-> 400, text |-> <<>>, actions |-> <<>>,
                             detail |-> <<"Invalid request">>]
                /\ UNCHANGED calls
           ELSE \E remote \in RemoteOutcomes :
                   /\ calls' = Append(calls,
                                      Call("execute_transfer_api", request.draft_id, "route",
                                           remote))
                   /\ reply' = IF remote = "error"
                               THEN [status |-> 500, text |-> <<>>, actions |-> <<>>,
                                     detail |-> <<"Internal Server Error">>]
                               ELSE [status |-> 200,
                                     text |-> execute_transfer_api(request.draft_id),
                                     actions |-> <<>>, detail |-> <<>>]
    /\ UNCHANGED <<request, pool, messages, actions_taken, iteration, response, block_index,
                   tool_results, ledger, result, llm_calls, tool_attempts, log_calls, clock,
                   peer_actions_taken,
                   context, sanitized>>

Next ==
    \/ AgentQuery
    \/ LLMCall
    \/ ProcessBlock
    \/ EndRound
    \/ Fallback
    \/ TransferExecute

Spec == Init /\ [][Next]_vars
SpecOutput == InitOutput /\ [][Next]_vars
SpecTransfer == InitTransfer /\ [][Next]_vars
SpecExecute == InitExecute /\ [][Next]_vars
SpecContext == InitContext /\ [][Next]_vars

\* ------------------------------------------------- concurrent invocations
\* agent_query is a coroutine of one event loop: while an invocation of
\* run_cloud_agent is suspended, another one runs. The other invocation (the
\* peer) is reduced to what the two share, the audit log file: its steps are
\* its calls of audit.log, an llm_call record and then tool_call records.
\* AuditLogger.log has no await between building the entry and writing it, so
\* each call is one step. The event loop switches only at an await of a
\* collaborator; the peer is allowed to run between any two steps of this
\* invocation, which covers every switch the event loop can make, because no
\* step touches the file more than once.
PeerLogged == Cardinality({i \in 1..Len(log_calls) : log_calls[i].by = "peer"})

\* The n-th call of audit.log the peer makes.
PeerCall(n) ==
    IF n = 1
    THEN LogCall("peer", "llm_call",
                 [user_id |-> "dev_user_001", session_id |-> <<"s", "2">>, iteration |-> 1,
                  stop_reason |-> "tool_use", intent |-> <<"b", "a", "l", "a", "n", "c", "e">>])
    ELSE LogCall("peer", "tool_call",
                 [user_id |-> "dev_user_001", tool |-> "get_account_summary",
                  has_result |-> "yes"])

\* The peer invocation calls audit.log.
PeerLog ==
    /\ PeerLogged < MaxPeerLogs
    /\ LET c == PeerCall(PeerLogged + 1)
       IN  /\ ledger' = log(ledger, c.event, c.metadata)
           /\ log_calls' = Append(log_calls, c)
    /\ UNCHANGED <<pc, request, pool, messages, actions_taken, iteration, response,
                   block_index, tool_results, calls, result, reply, llm_calls, tool_attempts,
                   clock, peer_actions_taken,
                   context, sanitized>>

\* actions_taken bound at module level, one list for all invocations.
UnsharedAppend_ModuleLevelList(own, action) == own \o action

\* What an append to the action list of another invocation does to the list
\* of this one: nothing, actions_taken is a new list in every invocation.
UnsharedAppend(own, action) == own

\* The peer invocation stages a transfer: execute_tool, the append to its
\* action list and the tool_call record, with no await in between.
PeerStage ==
    /\ PeerLogged >= 1
    /\ PeerLogged < MaxPeerLogs
    /\ \E uuid \in DRAFT_IDS :
          LET res == execute_tool("stage_transfer",
                                  StageArgs(SAVINGS, CHECKING, Number(250000)),
                                  [user_id |-> "dev_user_001"], uuid, "ok")
              metadata == [user_id |-> "dev_user_001", tool |-> "stage_transfer",
                           has_result |-> "yes"]
          IN  /\ peer_actions_taken' = peer_actions_taken \o res.action
              /\ actions_taken' = UnsharedAppend(actions_taken, res.action)
              /\ ledger' = log(ledger, "tool_call", metadata)
              /\ log_calls' = Append(log_calls, LogCall("peer", "tool_call", metadata))
    /\ UNCHANGED <<pc, request, pool, messages, iteration, response, block_index,
                   tool_results, calls, result, reply, llm_calls, tool_attempts, clock,
                   context, sanitized>>

NextConcurrent ==
    \/ Next
    \/ PeerLog
    \/ PeerStage

SpecConcurrent == InitConcurrent /\ [][NextConcurrent]_vars

\* ------------------------------------------------------------- the clock
\* Time passes between the steps of a request. datetime.utcnow() reads the
\* system clock, which is taken not to be set back while the process runs.
Tick ==
    /\ clock < MaxClock
    /\ clock' = clock + 1
    /\ UNCHANGED <<pc, request, pool, messages, actions_taken, iteration, response,
                   block_index, tool_results, ledger, calls, result, reply, llm_calls,
                   tool_attempts, log_calls, peer_actions_taken,
                   context, sanitized>>

NextClock ==
    \/ Next
    \/ Tick

SpecClock == InitClock /\ [][NextClock]_vars

\* ------------------------------------------------------ rounds and caps
\* Two rounds on a small pool, and every cap from -1 on with the fairness of
\* a caller that awaits each step: an external call returns or fails.
SpecRounds == InitRounds /\ [][Next]_vars
SpecCaps == InitCaps /\ [][Next]_vars /\ WF_vars(Next)
SpecActions == InitActions /\ [][Next]_vars
SpecAuth == InitAuth /\ [][Next]_vars
SpecCatalog == InitCatalog /\ [][Next]_vars

\* ------------------------------------------------------- sanitize_context
\* Texts a session context may hold: a CVV followed at once by nine more
\* digits, a PIN followed by a card number, and two passwords in a row.
CVV_THEN_DIGITS_TEXT == <<"c", "v", "v", " ", "1", "2", "3", "4", "1", "2", "3", "4", "5", "6", "7", "8", "9">>
PIN_THEN_CARD_TEXT == <<"p", "i", "n", " ", "1", "2", "3", "4", "5", "6", "4", "1", "1", "1", "1", "1", "1", "1", "1", "1", "1", "1", "1", "1", "1", "1">>
TWO_PASSWORDS_TEXT == <<"p", "a", "s", "s", "w", "o", "r", "d", ":", " ", "a", " ", "p", "a", "s", "s", "w", "o", "r", "d", ":", " ", "b">>

\* The mappings sanitize_context is called with: str values with and without
\* sensitive data, and a value that is not a str.
Contexts ==
    [context_summary : {Str(t) : t \in {<<"v", "i", "p">>, <<>>, SSN_TEXT, CVV_TEXT,
                                        CARD16_TEXT, CARD17_TEXT, FORMATTED_CARD_TEXT,
                                        NINE_DIGIT_TEXT, PIN_TEXT, PASSWORD_TEXT,
                                        SECRET_TEXT, API_KEY_TEXT, BALANCE_TEXT,
                                        CVV_THEN_DIGITS_TEXT, PIN_THEN_CARD_TEXT,
                                        TWO_PASSWORDS_TEXT}},
     session_id : {Str(t) : t \in {<<"s", "1">>, NINE_DIGIT_TEXT}},
     attempts : {IntValue(n) : n \in {0, 123456789}}]

\* A call of sanitize_context is about to be made.
InitSanitize ==
    /\ pc = "context"
    /\ request = [route |-> "none"]
    /\ pool = {}
    /\ messages = <<>>
    /\ actions_taken = <<>>
    /\ iteration = 0
    /\ response = NoResponse
    /\ block_index = 0
    /\ tool_results = <<>>
    /\ ledger = <<>>
    /\ calls = <<>>
    /\ result = NoResult
    /\ reply = NoReply
    /\ llm_calls = 0
    /\ tool_attempts = 0
    /\ log_calls = <<>>
    /\ clock = 0
    /\ peer_actions_taken = <<>>
    /\ context \in Contexts
    /\ sanitized = <<>>

\* sanitized = guardrails.sanitize_context(context)
Sanitize ==
    /\ pc = "context"
    /\ sanitized' = sanitize_context(context)
    /\ pc' = "sanitized"
    /\ UNCHANGED <<request, pool, messages, actions_taken, iteration, response, block_index,
                   tool_results, ledger, calls, result, reply, llm_calls, tool_attempts,
                   log_calls, clock, peer_actions_taken, context>>

\* The result is handed to sanitize_context once more.
SanitizeAgain ==
    /\ pc = "sanitized"
    /\ sanitized' = sanitize_context(sanitized)
    /\ pc' = "sanitized again"
    /\ UNCHANGED <<request, pool, messages, actions_taken, iteration, response, block_index,
                   tool_results, ledger, calls, result, reply, llm_calls, tool_attempts,
                   log_calls, clock, peer_actions_taken, context>>

NextSanitize ==
    \/ Sanitize
    \/ SanitizeAgain

SpecSanitize == InitSanitize /\ [][NextSanitize]_vars

\* ------------------------------------------------------------- vocabulary
\* The for loop is about to take up a tool_use block.
AtToolUse ==
    /\ pc = "tools"
    /\ block_index \in 1..Len(response.content)
    /\ response.content[block_index].type = "tool_use"

CurrentBlock == response.content[block_index]

\* The draft id an execute_transfer invocation names.
NamedDraft(block) == Get(block.input, "approved_draft_id", "")

AtExecute == AtToolUse /\ CurrentBlock.name = "execute_transfer"
AtStage == AtToolUse /\ CurrentBlock.name = "stage_transfer"

\* The tool-result turns of the conversation: the odd positions after the first.
ToolTurns == {i \in 2..Len(messages) : messages[i].role = "user"}

\* The audit records of one kind.
Events(kind) == {i \in 1..Len(ledger) : ledger[i].event = kind}
ToolEvents(tool) == {i \in Events("tool_call") : ledger[i].metadata.tool = tool}

\* The calls of execute_transfer_api.
ExecutionCalls == {i \in 1..Len(calls) : calls[i].fn = "execute_transfer_api"}

\* The draft ids issued by stage_transfer since the process started, and the
\* draft ids whose execution succeeded.
StagedIds == {actions_taken[i].payload.draft_id : i \in 1..Len(actions_taken)}
ExecutedIds == {calls[i].draft_id : i \in {j \in ExecutionCalls : calls[j].outcome = "ok"}}

\* run_cloud_agent returned through the statement after the while loop.
ReturnedFallback ==
    pc = "done" /\ result.kind = "returned" /\ response.stop_reason # "end_turn"

\* ------------------------------------------------------------------ claims

\* C1: an execute_transfer invocation whose approved_draft_id is not in
\* approved_draft_ids makes no collaborator call, is answered by the tool
\* result that asks for the user's confirmation, and the loop moves on to the
\* next block without dispatching or retrying it; the conversation then holds
\* that tool result for the invocation.
C1_UnapprovedExecuteRefused ==
    /\ [][(AtExecute /\ NamedDraft(CurrentBlock) \notin approved_draft_ids) =>
            /\ calls' = calls
            /\ actions_taken' = actions_taken
            /\ tool_results' = Append(tool_results,
                                      ToolResult(CurrentBlock.id, UNAPPROVED_RESULT))
            /\ block_index' = block_index + 1
            /\ pc' = "tools"]_vars
    /\ [](\A i \in ToolTurns :
            \A j \in 1..Len(messages[i - 1].content) :
               LET block == messages[i - 1].content[j]
               IN  (/\ block.type = "tool_use"
                    /\ block.name = "execute_transfer"
                    /\ NamedDraft(block) \notin approved_draft_ids)
                   => /\ Cardinality({k \in 1..Len(messages[i].content) :
                                         messages[i].content[k].tool_use_id = block.id}) = 1
                      /\ \A k \in 1..Len(messages[i].content) :
                            messages[i].content[k].tool_use_id = block.id
                            => messages[i].content[k].content = UNAPPROVED_RESULT)

\* C1 witness: the conversation holds the refusal of an unapproved execute.
C1_Witness ==
    \E i \in ToolTurns : \E k \in 1..Len(messages[i].content) :
        /\ messages[i].content[k].content = UNAPPROVED_RESULT
        /\ calls = <<>>

\* C2: execute_transfer_api is called only for a draft id in the approved set
\* of the request, on the agent loop and on the /agent/transfer/execute route.
C2_ExecuteOnlyApproved ==
    \A i \in ExecutionCalls :
        /\ request.route = "/agent/query"
        /\ calls[i].draft_id \in request.approved_draft_ids

\* C3: an execute_transfer invocation naming an approved draft id makes
\* exactly one execution call, for a draft that stage_transfer issued before.
C3_ApprovedExecuteOnceFromStaged ==
    [][(AtExecute /\ NamedDraft(CurrentBlock) \in approved_draft_ids) =>
          /\ Len(calls') = Len(calls) + 1
          /\ calls'[Len(calls')].fn = "execute_transfer_api"
          /\ calls'[Len(calls')].draft_id = NamedDraft(CurrentBlock)
          /\ NamedDraft(CurrentBlock) \in StagedIds]_vars

\* The cases of C4: the amount is a number below 0.01 or above 10000, the two
\* accounts are equal, or one of them is empty or missing.
AmountOutOfRange(args) ==
    /\ "amount" \in DOMAIN args
    /\ args.amount.parses
    /\ (args.amount.mills < 10 \/ args.amount.mills > 10000000)
AccountMissing(args) ==
    \E key \in {"from_account", "to_account"} : key \notin DOMAIN args \/ args[key] = <<>>
SameAccount(args) ==
    /\ {"from_account", "to_account"} \subseteq DOMAIN args
    /\ args.from_account = args.to_account
InvalidTransfer(args) == AmountOutOfRange(args) \/ AccountMissing(args) \/ SameAccount(args)

\* C4: for a stage_transfer invocation with an invalid amount or account
\* pair, validate_transfer raises, and the invocation appends no action,
\* reaches no collaborator and is answered by a blocked-call tool result.
C4_InvalidTransferNeverStaged ==
    [][(AtStage /\ InvalidTransfer(CurrentBlock.input)) =>
          /\ validate_transfer(CurrentBlock.input).raised
          /\ actions_taken' = actions_taken
          /\ calls' = calls
          /\ Len(tool_results') = Len(tool_results) + 1
          /\ tool_results'[Len(tool_results')].tool_use_id = CurrentBlock.id
          /\ tool_results'[Len(tool_results')].content[1] = "Blocked by guardrail: "
          /\ pc' = "tools"]_vars

\* C4 witness: an invalid stage_transfer invocation has been answered, and no
\* draft exists.
C4_Witness ==
    /\ pc = "tools"
    /\ actions_taken = <<>>
    /\ \E j \in 1..Len(tool_results) :
          LET block == response.content[tool_results[j].tool_use_id]
          IN  /\ block.name = "stage_transfer"
              /\ SameAccount(block.input)
              /\ tool_results[j].content[1] = "Blocked by guardrail: "

\* The text of the response that signalled completion.
SignalledText == Join(TextBlocks(response.content))

\* Texts that are sensitive whatever surrounds them: a 16-digit sequence, a
\* labelled CVV value, an SSN-shaped sequence.
KnownSensitive == {CARD16_TEXT, CVV_TEXT, SSN_TEXT}

\* The messages of the exceptions that may end such an invocation.
GenericDetails ==
    {<<"Blocked: possible ", PII_LABELS[k], " in response">> : k \in 1..Len(PII_LABELS)}
    \cup {<<"audit log write failed">>}

\* C5: when the response that signals completion carries text matching a
\* sensitive-data pattern, run_cloud_agent raises and neither its result nor
\* the reply of /agent/query carries any text of the response.
C5_SensitiveTextNeverReturned ==
    (/\ pc = "done"
     /\ response.stop_reason = "end_turn"
     /\ \/ PII_PATTERNS(SignalledText) # {}
        \/ \E i \in 1..Len(response.content) :
              /\ response.content[i].type = "text"
              /\ response.content[i].text \in KnownSensitive)
    => /\ result.kind = "raised"
       /\ result.text = <<>>
       /\ reply.status = 500
       /\ reply.text = <<>>
       /\ reply.detail \in GenericDetails

\* C5 witness: the output scan stopped a response of two text blocks, one of
\* them a 16-digit sequence.
C5_Witness ==
    /\ pc = "done"
    /\ response.stop_reason = "end_turn"
    /\ Len(response.content) = 2
    /\ response.content[2] = TextBlock(CARD16_TEXT)
    /\ result.type = "GuardrailViolation"
    /\ reply.status = 500

\* C6: as long as the invocation has not failed, the ledger holds one
\* llm_call event per call of the reasoning service and one tool_call event
\* per tool invocation taken up, dispatched or blocked.
C6_OneAuditEventPerCall ==
    result.kind # "raised" =>
        /\ Cardinality(Events("llm_call")) = llm_calls
        /\ Cardinality(Events("tool_call")) = tool_attempts

\* The tool results of the conversation that report a staged transfer.
StagedResults ==
    {<<i, k>> \in ToolTurns \X (1..MaxBlocks) :
        /\ k <= Len(messages[i].content)
        /\ messages[i].content[k].content[1] = "Transfer staged: Draft ID: "}

\* C7: when the loop ends without a final answer, run_cloud_agent returns the
\* fallback text and every action of the invocation, and max_iterations
\* llm_call events have been recorded.
C7_FallbackAfterMaxIterations ==
    ReturnedFallback =>
        /\ result.text = FALLBACK_TEXT
        /\ reply.text = FALLBACK_TEXT
        /\ result.actions = actions_taken
        /\ reply.actions = actions_taken
        /\ Len(actions_taken) = Cardinality(StagedResults)
        /\ Cardinality(Events("llm_call")) = max_iterations
        /\ llm_calls = max_iterations

\* C7 witness: two rounds without a final answer, a transfer staged in one.
C7_Witness ==
    /\ ReturnedFallback
    /\ max_iterations = 2
    /\ Len(result.actions) >= 1

\* C8: an error of a tool collaborator never leaves run_cloud_agent.
C8_CollaboratorErrorStaysInLoop ==
    ~(result.kind = "raised" /\ result.type = "RemoteError")

\* C9: every transfer the agent loop executed, and every staged draft
\* reported to the caller, has its tool_call record in the ledger.
C9_NoMoneyMoveWithoutAudit ==
    /\ Cardinality({i \in ExecutionCalls : calls[i].via = "agent" /\ calls[i].outcome = "ok"})
          <= Cardinality(ToolEvents("execute_transfer"))
    /\ Len(reply.actions) <= Cardinality(ToolEvents("stage_transfer"))

\* The step appends one record of the given kind at the end of the ledger.
Appended(kind) ==
    /\ Len(ledger') = Len(ledger) + 1
    /\ SubSeq(ledger', 1, Len(ledger)) = ledger
    /\ ledger'[Len(ledger')].event = kind

\* C10: every step leaves the ledger as it is or appends one record at its
\* end, and a reasoning-service call that is audited appends its llm_call
\* record: the earlier content stays an unchanged prefix.
C10_LedgerAppendOnly ==
    [][/\ (ledger' = ledger \/ Appended("llm_call") \/ Appended("tool_call"))
       /\ (llm_calls' > llm_calls /\ result'.kind # "raised") => Appended("llm_call")
       /\ (AtToolUse /\ pc' = "tools" /\ calls' # calls) => Appended("tool_call")]_vars

\* C10 witness: a ledger of three records, of both kinds.
C10_Witness ==
    /\ Len(ledger) >= 3
    /\ Events("llm_call") # {}
    /\ Events("tool_call") # {}

\* The metadata keys whose values come from the caller of /agent/query.
CallerSuppliedKeys == {"session_id", "intent"}

\* C11: no record of the ledger has a caller-supplied metadata value (session
\* id, intent label) that a pattern of the output scan matches.
C11_LedgerMetadataScreened ==
    \A i \in 1..Len(ledger) :
        \A key \in DOMAIN ledger[i].metadata \cap CallerSuppliedKeys :
            PII_PATTERNS(ledger[i].metadata[key]) = {}

\* The ledger records in the order the calls of audit.log returned.
RecordsLogged == [i \in 1..Len(log_calls) |->
                     [event |-> log_calls[i].event, timestamp |-> log_calls[i].timestamp,
                      metadata |-> log_calls[i].metadata]]

Occurs(v, t) == \E i \in 1..(Len(t) - Len(v) + 1) : SubSeq(t, i, i + Len(v) - 1) = v

\* C13: once the conversation has been submitted, neither context_summary nor
\* session_id occurs in its first turn with a match of a sensitive-data
\* pattern.
C13_ContextSanitizedBeforeSubmission ==
    llm_calls > 0 =>
        \A v \in {user_context.context_summary, user_context.session_id} :
            Occurs(v, messages[1].content) => PII_PATTERNS(v) = {}

\* C14: when run_cloud_agent fails, the detail the caller of /agent/query
\* receives is not the text of the exception.
C14_FailureReplyIsGeneric ==
    (pc = "done" /\ result.kind = "raised") => reply.detail # result.msg

\* The amount is a number above 10000.
OverLimit(args) ==
    "amount" \in DOMAIN args /\ args.amount.parses /\ args.amount.mills > 10000000

\* The blocked-call message for an amount above the ceiling.
BLOCKED_OVER_LIMIT ==
    <<"Blocked by guardrail: ", "AI-initiated transfers are limited to $10,000. ",
      "For larger amounts, please visit a Chase branch or call 1-800-935-9935.">>

\* C15: a stage_transfer invocation that validate_transfer vetoes is answered
\* by the blocked-call message carrying the hint of the veto, appends no
\* action, reaches neither the staging step nor a collaborator, and leaves the
\* for loop at the next block with the invocation not ended; an amount above
\* 10000 is vetoed with the hint that names the $10,000 ceiling.
C15_VetoedStageFedBack ==
    [][/\ (AtStage /\ validate_transfer(CurrentBlock.input).raised) =>
             /\ validate_transfer(CurrentBlock.input).msg # <<>>
             /\ tool_results' = Append(tool_results,
                   ToolResult(CurrentBlock.id,
                              <<"Blocked by guardrail: ">>
                                 \o validate_transfer(CurrentBlock.input).msg))
             /\ actions_taken' = actions_taken
             /\ calls' = calls
             /\ block_index' = block_index + 1
             /\ pc' = "tools"
             /\ result' = result
       /\ (AtStage /\ OverLimit(CurrentBlock.input)) =>
             /\ Len(tool_results') = Len(tool_results) + 1
             /\ tool_results'[Len(tool_results')].content = BLOCKED_OVER_LIMIT
             /\ actions_taken' = actions_taken]_vars

\* C15 witness: a round whose first invocation was vetoed for its amount and
\* whose second invocation was staged has joined the conversation.
C15_Witness ==
    /\ pc = "loop"
    /\ Len(messages) = 3
    /\ Len(messages[3].content) = 2
    /\ messages[3].content[1].content = BLOCKED_OVER_LIMIT
    /\ messages[3].content[2].content[1] = "Transfer staged: Draft ID: "
    /\ Len(actions_taken) = 1

\* C16: a stage_transfer invocation that passes validate_transfer appends one
\* transfer_staged action with a draft id and the accounts and amount of the
\* invocation, and an invocation of any other tool appends none.
C16_ValidStageAppendsOneAction ==
    [][/\ (AtStage /\ ~validate_transfer(CurrentBlock.input).raised) =>
             /\ Len(actions_taken') = Len(actions_taken) + 1
             /\ SubSeq(actions_taken', 1, Len(actions_taken)) = actions_taken
             /\ LET action == actions_taken'[Len(actions_taken')]
                    args == CurrentBlock.input
                IN  /\ action.type = "transfer_staged"
                    /\ action.payload.draft_id \in DRAFT_IDS
                    /\ action.payload.from_account = args.from_account
                    /\ action.payload.to_account = args.to_account
                    /\ action.payload.amount = args.amount.mills
       /\ (AtToolUse /\ CurrentBlock.name # "stage_transfer") =>
             actions_taken' = actions_taken]_vars

\* C17: the drafts staged by an invocation have pairwise distinct draft ids.
C17_DraftIdsDistinct ==
    \A i, j \in 1..Len(actions_taken) :
        i # j => actions_taken[i].payload.draft_id # actions_taken[j].payload.draft_id

\* The execution calls the agent loop made for draft id d and that succeeded.
ExecutionsOf(d) ==
    {i \in ExecutionCalls :
        calls[i].via = "agent" /\ calls[i].draft_id = d /\ calls[i].outcome = "ok"}

\* C18: within an invocation, a draft id is executed at most once: after an
\* execution call for it, a later execute_transfer naming it makes no second.
C18_ExecutedIsTerminal ==
    \A d \in DRAFT_IDS : Cardinality(ExecutionsOf(d)) <= 1

\* The execute_transfer invocation supplies a confirmation token.
HasToken(block) == "confirmation_token" \in DOMAIN block.input

C20_ApprovedSetUnchanged ==
    [][/\ request.route = "/agent/query" => approved_draft_ids' = approved_draft_ids
       /\ (AtExecute /\ NamedDraft(CurrentBlock) \in StagedIds \ approved_draft_ids) =>
             /\ calls' = calls
             /\ tool_results'[Len(tool_results')].content = UNAPPROVED_RESULT]_vars

\* C20 witness: the invocation staged a draft and then refused to execute it,
\* the caller's approved set being empty.
C20_Witness ==
    /\ pc = "tools"
    /\ approved_draft_ids = {}
    /\ Len(actions_taken) = 1
    /\ Len(tool_results) = 2
    /\ NamedDraft(response.content[2]) = actions_taken[1].payload.draft_id
    /\ tool_results[2].content = UNAPPROVED_RESULT
    /\ calls = <<>>

\* ------------------------------------------------------------------- C21
\* The call ids of a list of tool results, in order.
IdsOf(results) == [i \in 1..Len(results) |-> results[i].tool_use_id]

\* The call ids of the tool invocations of a response content, in order.
ToolUseIds(content) ==
    LET uses == SelectSeq(content, LAMBDA b : b.type = "tool_use")
    IN  [i \in 1..Len(uses) |-> uses[i].id]

\* The blocks of the current response the for loop has gone past.
Processed == SubSeq(response.content, 1, block_index - 1)

\* C21: within a round the proposed tool invocations are processed in the order
\* received and their results reach the conversation in that order: during the
\* for loop the results are those of the invocations gone past, in their order;
\* a pass of the loop moves to the next block only, and a collaborator is
\* called only for the current block, all earlier ones being answered; every
\* tool-result turn lists the ids of the invocations of the turn before it in
\* their order.
C21_RoundProcessedInOrder ==
    /\ [](pc = "tools" => IdsOf(tool_results) = ToolUseIds(Processed))
    /\ [](\A i \in ToolTurns : IdsOf(messages[i].content) = ToolUseIds(messages[i - 1].content))
    /\ [][ /\ (pc = "tools" /\ pc' = "tools") => block_index' = block_index + 1
           /\ (pc = "tools" /\ Len(calls') > Len(calls)) =>
                 /\ AtToolUse
                 /\ Len(calls') = Len(calls) + 1
                 /\ calls'[Len(calls')].fn = "execute_transfer_api" =>
                       calls'[Len(calls')].draft_id = NamedDraft(CurrentBlock)
                 /\ IdsOf(tool_results) = ToolUseIds(Processed) ]_vars

\* A round of two different tool invocations, both dispatched, has reached the
\* conversation.
C21_Witness ==
    /\ Len(messages) = 3
    /\ Len(messages[2].content) = 2
    /\ messages[2].content[1].name = "stage_transfer"
    /\ messages[2].content[2].name = "execute_transfer"
    /\ IdsOf(messages[3].content) = <<1, 2>>
    /\ Len(calls) = 1
    /\ Len(actions_taken) = 1

\* ------------------------------------------------------------------- C22
\* client.messages.create has raised in this invocation.
ReasoningFailed == result.kind = "raised" /\ result.type = "APIError"

\* C22: when the call of the reasoning service fails the invocation is over
\* and the caller is answered with a failure; the failing step dispatches no
\* tool, and afterwards no reasoning-service call is made, no tool invocation
\* is processed, no collaborator is called and no audit event is written.
C22_ReasoningFailureEndsInvocation ==
    /\ [](ReasoningFailed => pc = "done" /\ reply.status = 500)
    /\ [][ /\ (~ReasoningFailed /\ ReasoningFailed') =>
                 /\ llm_calls' = llm_calls + 1
                 /\ calls' = calls
                 /\ tool_attempts' = tool_attempts
                 /\ ledger' = ledger
           /\ ReasoningFailed =>
                 /\ llm_calls' = llm_calls
                 /\ calls' = calls
                 /\ tool_attempts' = tool_attempts
                 /\ ledger' = ledger
                 /\ messages' = messages ]_vars

\* The reasoning service has failed in the second round, after a draft was
\* staged in the first.
C22_Witness ==
    /\ ReasoningFailed
    /\ pc = "done"
    /\ llm_calls = 2
    /\ Len(messages) = 3
    /\ Len(actions_taken) = 1

\* ------------------------------------------------------------------- C23
\* The step is one of the peer invocation: the call of audit.log it adds is
\* the peer's.
PeerStep ==
    /\ Len(log_calls') = Len(log_calls) + 1
    /\ log_calls'[Len(log_calls')].by = "peer"

\* The action a is the one the staged result k of turn i of this invocation's
\* conversation came with: the draft id of the result and the arguments of the
\* invocation it answers.
ProducedBy(a, i, k) ==
    LET res == messages[i].content[k]
        use == messages[i - 1].content[res.tool_use_id]
    IN  /\ a.type = "transfer_staged"
        /\ a.payload.draft_id = res.content[2]
        /\ a.payload.from_account = use.input.from_account
        /\ a.payload.to_account = use.input.to_account
        /\ a.payload.amount = use.input.amount.mills

\* The staged results of this invocation's conversation, in order.
OwnStaged ==
    LET turn == IF Len(messages) >= 3 THEN messages[3].content ELSE <<>>
    IN  SelectSeq([k \in 1..Len(turn) |-> <<3, k>>], LAMBDA ik : ik \in StagedResults)

C24_StagedDraftsReported ==
    (pc = "done" /\ request.route = "/agent/query") => reply.actions = actions_taken

RecordsLlmCall ==
    /\ Len(ledger') = Len(ledger) + 1
    /\ ledger'[Len(ledger')].event = "llm_call"

\* The keys of the metadata of an llm_call event.
LLM_CALL_KEYS == {"user_id", "session_id", "iteration", "stop_reason", "intent"}

\* C26: the llm_call event of round k records k, one more than the event of
\* the round before and 1 in the first round, the stop condition of the
\* response of that round and the intent label of the request; it has no field
\* for the user message, and the message occurs in none of its text fields.
C26_LlmCallEventRecordsRound ==
    /\ [][ RecordsLlmCall =>
              LET m == ledger'[Len(ledger')].metadata
              IN  /\ DOMAIN m = LLM_CALL_KEYS
                  /\ m.iteration = Cardinality(Events("llm_call")) + 1
                  /\ m.iteration = iteration'
                  /\ m.stop_reason = response'.stop_reason
                  /\ m.intent = request.intent
                  /\ ~Occurs(request.query, m.intent)
                  /\ ~Occurs(request.query, m.session_id) ]_vars
    /\ [](\A i \in Events("llm_call") :
             ledger[i].metadata.iteration = Cardinality({j \in Events("llm_call") : j <= i}))

\* Two rounds have been recorded, the first ending in tool invocations and the
\* second with a final answer.
C26_Witness ==
    /\ Cardinality(Events("llm_call")) = 2
    /\ \E i, j \in Events("llm_call") :
          /\ i < j
          /\ ledger[i].metadata.iteration = 1
          /\ ledger[i].metadata.stop_reason = "tool_use"
          /\ ledger[j].metadata.iteration = 2
          /\ ledger[j].metadata.stop_reason = "end_turn"

\* ------------------------------------------------------------------- C27
\* The rounds of the invocation that ended with the for loop run to its end.
NonTerminalRounds == (Len(messages) - 1) \div 2

\* C27: the conversation starts with the single user turn; a step leaves it
\* alone or appends, after all its turns unchanged, the turn of the reasoning
\* service holding the response of the round and then one tool-result turn
\* holding the results of the round; while the loop is between rounds the
\* conversation has 1 + 2k turns after k rounds, and during round k + 1 as well.
C27_ConversationAppendOnly ==
    /\ [](messages # <<>> => messages[1] = FirstMessage)
    /\ [](\A i \in 1..Len(messages) :
             messages[i].role = IF i % 2 = 1 THEN "user" ELSE "assistant")
    /\ [](pc = "loop" => Len(messages) = 1 + 2 * iteration)
    /\ [](pc = "tools" => Len(messages) = 1 + 2 * (iteration - 1))
    /\ [][ \/ messages' = messages
           \/ messages = <<>> /\ messages' = <<FirstMessage>>
           \/ /\ messages # <<>>
              /\ pc = "tools"
              /\ Len(messages') = Len(messages) + 2
              /\ SubSeq(messages', 1, Len(messages)) = messages
              /\ messages'[Len(messages) + 1] =
                    [role |-> "assistant", content |-> response.content]
              /\ messages'[Len(messages) + 2] = [role |-> "user", content |-> tool_results]
              /\ iteration' = iteration ]_vars

\* Two non-terminal rounds have been appended.
C27_Witness ==
    /\ pc = "loop"
    /\ Len(messages) = 5
    /\ NonTerminalRounds = 2
    /\ iteration = 2
    /\ messages[3].content # <<>>

\* ------------------------------------------------------------------- C28
\* The tool invocations of a response content.
ToolUses(content) == {k \in 1..Len(content) : content[k].type = "tool_use"}

\* The results of a tool-result turn that carry the call id id.
ResultsFor(results, id) == {k \in 1..Len(results) : results[k].tool_use_id = id}

\* C28: a pass of the for loop over a tool invocation that does not abort,
\* whether it dispatches, is vetoed by the transfer guardrail or refuses an
\* unapproved execution, appends one tool result carrying the call id of that
\* invocation; every tool-result turn has as many results as the response
\* before it has tool invocations, one for each call id.
C28_OneResultPerInvocation ==
    /\ [][ (AtToolUse /\ pc' = "tools") =>
              /\ Len(tool_results') = Len(tool_results) + 1
              /\ SubSeq(tool_results', 1, Len(tool_results)) = tool_results
              /\ tool_results'[Len(tool_results')].type = "tool_result"
              /\ tool_results'[Len(tool_results')].tool_use_id = CurrentBlock.id ]_vars
    /\ [](\A i \in ToolTurns :
             /\ Len(messages[i].content) = Cardinality(ToolUses(messages[i - 1].content))
             /\ \A k \in ToolUses(messages[i - 1].content) :
                   Cardinality(ResultsFor(messages[i].content,
                                          messages[i - 1].content[k].id)) = 1)

\* A round of a vetoed staging and a refused execution has been answered, a
\* result for each.
C28_Witness ==
    /\ Len(messages) = 3
    /\ Cardinality(ToolUses(messages[2].content)) = 2
    /\ messages[3].content[1].content[1] = "Blocked by guardrail: "
    /\ messages[3].content[2].content = UNAPPROVED_RESULT
    /\ calls = <<>>

\* ------------------------------------------------------------------- C29
\* max(max_iterations, 0)
CallBudget == IF max_iterations > 0 THEN max_iterations ELSE 0

\* run_cloud_agent has been entered: the request is a query of an
\* authenticated caller.
Invoked == request.route = "/agent/query" /\ messages # <<>>

\* C29: whatever the reasoning service answers and whatever max_iterations is,
\* zero and negative values included, an invocation makes at most
\* max(max_iterations, 0) calls of the reasoning service and, every external
\* call returning or failing, comes to its end; with max_iterations <= 0 it
\* makes no call, writes no audit event and returns the fallback text with an
\* empty action list.
C29_IterationCapBoundsCalls ==
    /\ [](Invoked => llm_calls <= CallBudget)
    /\ <>(pc = "done")
    /\ [](Invoked => <>(pc = "done" /\ result.kind \in {"returned", "raised"}))
    /\ []((Invoked /\ max_iterations <= 0 /\ pc = "done") =>
             /\ llm_calls = 0
             /\ ledger = <<>>
             /\ calls = <<>>
             /\ result.kind = "returned"
             /\ result.text = FALLBACK_TEXT
             /\ result.actions = <<>>
             /\ reply.status = 200)

\* An invocation with a negative cap has returned.
C29_Witness ==
    /\ Invoked
    /\ max_iterations = -1
    /\ pc = "done"
    /\ llm_calls = 0
    /\ result.text = FALLBACK_TEXT

\* ------------------------------------------------------------------- C30
\* The draft an action describes has an amount from 0.01 to 10000 (10 to
\* 10000000 thousandths) and two account names, neither empty, that differ
\* when compared without regard to case.
DraftInvariants(payload) ==
    /\ payload.amount >= 10
    /\ payload.amount <= 10000000
    /\ payload.from_account # <<>>
    /\ payload.to_account # <<>>
    /\ Lower(payload.from_account) # Lower(payload.to_account)

\* C30: at every point of an invocation every transfer_staged action of the
\* action list, and of the result and the reply once they exist, describes a
\* draft that satisfies the invariants of the data model.
C30_StagedActionsSatisfyInvariants ==
    /\ \A i \in 1..Len(actions_taken) :
          actions_taken[i].type = "transfer_staged" => DraftInvariants(actions_taken[i].payload)
    /\ \A i \in 1..Len(reply.actions) :
          reply.actions[i].type = "transfer_staged" => DraftInvariants(reply.actions[i].payload)

\* Two drafts at the two ends of the amount range have been staged and
\* returned.
C30_Witness ==
    /\ pc = "done"
    /\ Len(reply.actions) = 2
    /\ reply.actions[1].payload.amount = 10
    /\ reply.actions[2].payload.amount = 10000000

\* ------------------------------------------------------------------- C31
\* C31: a draft staged during an invocation is not executed during it: an
\* execute_transfer invocation that names a draft id issued earlier in the
\* invocation is refused as unapproved, and no execution call is made.
C31_StagedDraftNotExecutedInInvocation ==
    [][(AtExecute /\ NamedDraft(CurrentBlock) \in StagedIds) =>
          /\ calls' = calls
          /\ Len(tool_results') = Len(tool_results) + 1
          /\ tool_results'[Len(tool_results')].content = UNAPPROVED_RESULT]_vars

\* ------------------------------------------------------------------- C32
\* The place in the ledger of the llm_call event of the current round (0 when
\* there is none).
LastLlmCall ==
    IF Events("llm_call") = {} THEN 0
    ELSE CHOOSE i \in Events("llm_call") : \A j \in Events("llm_call") : j <= i

\* The tools of the tool_call events written since the llm_call event of the
\* current round, in ledger order.
RoundToolCalls ==
    [n \in 1..(Len(ledger) - LastLlmCall) |-> ledger[LastLlmCall + n].metadata.tool]

\* The result is that of a dispatched invocation, neither vetoed nor refused.
IsDispatched(res) ==
    /\ res.content # UNAPPROVED_RESULT
    /\ res.content[1] # "Blocked by guardrail: "

\* The names of the tools dispatched so far in the current round, in dispatch
\* order.
DispatchedTools ==
    LET done == SelectSeq(tool_results, IsDispatched)
    IN  [n \in 1..Len(done) |-> response.content[done[n].tool_use_id].name]

\* C32: the audit events of an invocation are in the ledger in the order they
\* happened: an event is written behind all earlier ones; the llm_call event
\* of a round is written when the round number has just been raised, a
\* tool_call event while the for loop is at the invocation it records and the
\* ledger holds as many llm_call events as rounds have begun; so the ledger
\* begins with an llm_call event, round numbers grow along it, and the
\* tool_call events behind the llm_call event of the current round are those
\* of the invocations dispatched in this round, in dispatch order.
C32_AuditEventsInOrder ==
    /\ [][ Len(ledger') > Len(ledger) =>
              /\ Len(ledger') = Len(ledger) + 1
              /\ SubSeq(ledger', 1, Len(ledger)) = ledger
              /\ ledger'[Len(ledger')].event = "llm_call" =>
                    /\ pc = "loop"
                    /\ iteration' = iteration + 1
                    /\ ledger'[Len(ledger')].metadata.iteration = iteration'
              /\ ledger'[Len(ledger')].event = "tool_call" =>
                    /\ AtToolUse
                    /\ ledger'[Len(ledger')].metadata.tool = CurrentBlock.name
                    /\ Cardinality(Events("llm_call")) = iteration
                    /\ iteration' = iteration ]_vars
    /\ [](ledger # <<>> => ledger[1].event = "llm_call")
    /\ [](\A i, j \in Events("llm_call") :
             i < j => ledger[i].metadata.iteration < ledger[j].metadata.iteration)
    /\ [](pc = "tools" => RoundToolCalls = DispatchedTools)

\* The second round has been recorded behind the two tool calls of the first.
C32_Witness ==
    /\ Len(ledger) = 4
    /\ ledger[1].event = "llm_call"
    /\ ledger[1].metadata.iteration = 1
    /\ ledger[2].event = "tool_call"
    /\ ledger[2].metadata.tool = "get_account_summary"
    /\ ledger[3].event = "tool_call"
    /\ ledger[3].metadata.tool = "stage_transfer"
    /\ ledger[4].event = "llm_call"
    /\ ledger[4].metadata.iteration = 2

\* ------------------------------------------------------------------- C33
\* The list a is the beginning of the list b.
IsPrefix(a, b) == Len(a) <= Len(b) /\ SubSeq(b, 1, Len(a)) = a

\* C33: the action list only grows: every step leaves it as it is or puts one
\* action behind the others, which stay as they were; only a pass of the for
\* loop over a stage_transfer invocation adds one, and passes over a vetoed
\* staging, a refused execution or an invocation of another tool add none.
C33_ActionListOnlyGrows ==
    [][ /\ IsPrefix(actions_taken, actions_taken')
        /\ Len(actions_taken') <= Len(actions_taken) + 1
        /\ Len(actions_taken') > Len(actions_taken) =>
              /\ AtStage
              /\ ~OverLimit(CurrentBlock.input)
              /\ actions_taken'[Len(actions_taken')].type = "transfer_staged"
        /\ (AtToolUse /\ CurrentBlock.name # "stage_transfer") =>
              actions_taken' = actions_taken
        /\ (AtStage /\ OverLimit(CurrentBlock.input)) => actions_taken' = actions_taken
        /\ (AtExecute /\ NamedDraft(CurrentBlock) \notin request.approved_draft_ids) =>
              actions_taken' = actions_taken ]_vars

\* Two rounds, each with a staging and another invocation, have left two
\* actions in the list, the second round's behind the first's.
C33_Witness ==
    /\ pc = "loop"
    /\ Len(messages) = 5
    /\ Len(actions_taken) = 2
    /\ Len(messages[3].content) = 2
    /\ Len(messages[5].content) = 2
    /\ \E k \in 1..2 : <<3, k>> \in StagedResults
    /\ \E k \in 1..2 : <<5, k>> \in StagedResults
    /\ \E k \in 1..2 : messages[5].content[k].content[1] = "Blocked by guardrail: "

\* ------------------------------------------------------------------- C34
\* The texts of the text blocks of the response, in order.
ResponseTexts ==
    LET blocks == SelectSeq(response.content, LAMBDA b : b.type = "text")
    IN  [k \in 1..Len(blocks) |-> blocks[k].text]

\* Where the k-th of the texts ts begins in their join by single spaces, less
\* one.
RECURSIVE Offset(_, _)
Offset(ts, k) == IF k <= 1 THEN 0 ELSE Offset(ts, k - 1) + Len(ts[k - 1]) + 1

\* The text t is the texts ts joined by single spaces.
IsJoinOf(t, ts) ==
    IF ts = <<>> THEN t = <<>>
    ELSE /\ Len(t) = Offset(ts, Len(ts)) + Len(ts[Len(ts)])
         /\ \A k \in 1..Len(ts) :
               SubSeq(t, Offset(ts, k) + 1, Offset(ts, k) + Len(ts[k])) = ts[k]
         /\ \A k \in 2..Len(ts) : t[Offset(ts, k)] = " "

\* The pattern k is the first of the list that matches the text t.
FirstMatch(k, t) == Search(k, t) /\ \A j \in 1..(k - 1) : ~Search(j, t)

\* C34: the output scan either raises a violation named after the first
\* pattern of the list that matches or hands the text back as it is: when an
\* invocation ends on a final answer, either it returns the text blocks of the
\* response joined by single spaces, a text no pattern matches, and the reply
\* carries the same text, or it fails with the violation of the first matching
\* category and returns no text (or the audit write failed).
C34_OutputReturnedUnchangedOrRefused ==
    (pc = "done" /\ response.stop_reason = "end_turn") =>
       \/ /\ result.kind = "returned"
          /\ IsJoinOf(result.text, ResponseTexts)
          /\ reply.text = result.text
          /\ \A k \in 1..Len(PII_LABELS) : ~Search(k, result.text)
       \/ /\ result.kind = "raised"
          /\ result.type = "GuardrailViolation"
          /\ result.text = <<>>
          /\ reply.text = <<>>
          /\ \E k \in 1..Len(PII_LABELS) :
                /\ FirstMatch(k, Join(ResponseTexts))
                /\ result.msg = <<"Blocked: possible ", PII_LABELS[k], " in response">>
       \/ /\ result.kind = "raised"
          /\ result.type = "OSError"

\* A final answer of two text blocks that no pattern matches has been
\* returned, the blocks joined by one space.
C34_Witness ==
    /\ pc = "done"
    /\ result.kind = "returned"
    /\ response.content = <<TextBlock(SAFE_TEXT), TextBlock(BALANCE_TEXT)>>
    /\ result.text = SAFE_TEXT \o <<" ">> \o BALANCE_TEXT
    /\ reply.status = 200

\* ------------------------------------------------------------------- C35
\* The str values of a mapping.
StrKeys(m) == {key \in DOMAIN m : m[key].type = "str"}

\* C35: sanitize_context returns a mapping with the keys of its input and
\* every value that is not a str as it was, leaves its input as it was, and
\* every str value of the result passes validate_output, so that a second
\* application changes nothing.
C35_SanitizedContextPassesOutputScan ==
    /\ pc \in {"sanitized", "sanitized again"} =>
          /\ DOMAIN sanitized = DOMAIN context
          /\ \A key \in DOMAIN context \ StrKeys(context) : sanitized[key] = context[key]
          /\ StrKeys(sanitized) = StrKeys(context)
          /\ \A key \in StrKeys(sanitized) : ~validate_output(sanitized[key].text).raised
    /\ pc = "sanitized" => sanitize_context(sanitized) = sanitized

\* ------------------------------------------------------------------- C36
\* The response neither signals the final answer nor proposes a tool
\* invocation.
Inconclusive(r) == r.stop_reason \notin {"", "end_turn"} /\ ~HasToolUse(r.content)

\* C36: a response that is not end_turn and proposes no tool invocation does
\* not end the invocation: the round is recorded by its llm_call event and
\* counted, the for loop dispatches nothing and answers nothing, and the round
\* ends with the response and an empty tool-result turn appended to the
\* conversation and the loop back at its test.
C36_InconclusiveResponseContinues ==
    /\ [][ (pc = "loop" /\ Len(ledger') > Len(ledger) /\ Inconclusive(response')) =>
              /\ pc' = "tools"
              /\ result' = result
              /\ reply' = reply
              /\ iteration' = iteration + 1
              /\ ledger'[Len(ledger')].event = "llm_call"
              /\ ledger'[Len(ledger')].metadata.stop_reason = response'.stop_reason ]_vars
    /\ []((pc = "tools" /\ Inconclusive(response)) => tool_results = <<>>)
    /\ [][ (pc = "tools" /\ Inconclusive(response)) =>
              /\ pc' \in {"tools", "loop"}
              /\ calls' = calls
              /\ actions_taken' = actions_taken
              /\ ledger' = ledger
              /\ iteration' = iteration
              /\ pc' = "loop" =>
                    messages' = messages \o
                       <<[role |-> "assistant", content |-> response.content],
                         [role |-> "user", content |-> <<>>]>> ]_vars

\* A truncated answer in the first round, then a final answer in the second.
C36_Witness ==
    /\ pc = "done"
    /\ result.kind = "returned"
    /\ llm_calls = 2
    /\ Len(messages) = 3
    /\ messages[2].content = <<TextBlock(SAFE_TEXT)>>
    /\ messages[3].content = <<>>
    /\ ledger[1].metadata.stop_reason = "max_tokens"
    /\ ledger[2].metadata.stop_reason = "end_turn"

\* ------------------------------------------------------------------- C37
\* The for loop is at an invocation of a tool that is not in the catalog.
AtUnknownTool == AtToolUse /\ CurrentBlock.name \notin TOOL_NAMES

\* C37: an invocation of a tool that is not in the catalog calls no
\* collaborator and adds no action; it is answered with the tool result
\* "Unknown tool: <name>", and, the audit write succeeding, it is recorded by
\* one tool_call event and the for loop goes on with the next block (when the
\* audit write fails the invocation aborts on that failure).
C37_UnknownToolAnswered ==
    [][ AtUnknownTool =>
           /\ calls' = calls
           /\ actions_taken' = actions_taken
           /\ tool_results' = Append(tool_results,
                 [type |-> "tool_result", tool_use_id |-> CurrentBlock.id,
                  content |-> <<"Unknown tool: ", CurrentBlock.name>>])
           /\ \/ /\ pc' = "tools"
                 /\ block_index' = block_index + 1
                 /\ Len(ledger') = Len(ledger) + 1
                 /\ ledger'[Len(ledger')].event = "tool_call"
                 /\ ledger'[Len(ledger')].metadata.tool = CurrentBlock.name
                 /\ result' = result
              \/ /\ pc' = "done"
                 /\ ledger' = ledger
                 /\ result'.type = "OSError" ]_vars

\* An invocation of close_account has been answered and recorded, and the
\* round has ended with the loop going on.
C37_Witness ==
    /\ pc = "loop"
    /\ Len(messages) = 3
    /\ Len(messages[2].content) = 1
    /\ messages[2].content[1].name = "close_account"
    /\ messages[3].content[1].content = <<"Unknown tool: ", "close_account">>
    /\ calls = <<>>
    /\ actions_taken = <<>>
    /\ Len(ledger) = 2
    /\ ledger[2].metadata.tool = "close_account"

\* ------------------------------------------------------------------- C38
\* The Authorization header does not begin with "Bearer ", or nothing follows
\* that prefix.
BadHeader(h) == ~StartsWith(h, BEARER_PREFIX) \/ h = BEARER_PREFIX

====
